---- MODULE Spec2Model ----
(***************************************************************************)
(* A model of the prediction-and-evaluation core of sports_analyzer:       *)
(*   backend/services/prediction_engine.py  (factor calculators, the       *)
(*                                           combination, the batch API)    *)
(*   backend/services/backtester.py         (replay of stored games)        *)
(*   backend/services/optimizer.py          (weight search)                 *)
(*   backend/models/database.py             (the games and predictions      *)
(*                                           tables)                        *)
(*   backend/services/base_collector.py     (the rate limiter of the data   *)
(*                                           collectors)                    *)
(*                                                                         *)
(* Python floats are modelled as exact rationals [n, d] in lowest terms,    *)
(* d > 0; IEEE rounding error is not modelled.  round(x, 1) is modelled as  *)
(* rounding of the exact value to the nearest tenth, ties to even.          *)
(* Explanation strings, algorithm_version and created_at carry no           *)
(* behaviour and are left out of the records.                               *)
(***************************************************************************)
EXTENDS Integers, Sequences, FiniteSets, TLC

VARIABLES db_games,        \* rows of the games table (SportsDatabase)
          db_predictions,  \* rows of the predictions table, in insertion order
          call,            \* the call in hand: [op, args, ret]
          rate_limiter,    \* a collector's RateLimiter: [max_calls, calls]
          clock,           \* the time of day, in seconds
          sent             \* the times at which requests went out, in order

vars == <<db_games, db_predictions, call, rate_limiter, clock, sent>>

\* The collector's side of the state, which the engine, the backtester and
\* the optimizer never touch.
collector_vars == <<rate_limiter, clock, sent>>

\* A collector as constructed (rate_limit = 60) that has sent nothing.
CollectorIdle ==
    /\ rate_limiter = [max_calls |-> 60, calls |-> <<>>]
    /\ clock = 0
    /\ sent = <<>>

(***************************************************************************)
(* Exact rational arithmetic standing in for Python float arithmetic.       *)
(***************************************************************************)
Abs(i) == IF i < 0 THEN 0 - i ELSE i

RECURSIVE GCD(_, _)
GCD(a, b) == IF b = 0 THEN a ELSE GCD(b, a % b)

Rat(n, d) ==
    LET s == IF d < 0 THEN 0 - 1 ELSE 1
        g == GCD(Abs(n), Abs(d))
    IN  [n |-> (s * n) \div g, d |-> (s * d) \div g]

Zero == Rat(0, 1)
RInt(i) == Rat(i, 1)
RAdd(x, y) == Rat(x.n * y.d + y.n * x.d, x.d * y.d)
RSub(x, y) == Rat(x.n * y.d - y.n * x.d, x.d * y.d)
RMul(x, y) == Rat(x.n * y.n, x.d * y.d)
RDiv(x, y) == Rat(x.n * y.d, x.d * y.n)
RLt(x, y) == x.n * y.d < y.n * x.d
RLe(x, y) == x.n * y.d <= y.n * x.d
RAbs(x) == [n |-> Abs(x.n), d |-> x.d]
RMin(x, y) == IF RLe(x, y) THEN x ELSE y
RPos(x) == x.n > 0

ROUND_DIGITS_SCALE == 10

\* Python round(x, 1): the nearest multiple of 1/10, ties to the even one.
Round1(x) ==
    LET s == ROUND_DIGITS_SCALE * x.n
        q == s \div x.d
        r == s % x.d
        t == IF 2 * r < x.d THEN q
             ELSE IF 2 * r > x.d THEN q + 1
             ELSE IF q % 2 = 0 THEN q ELSE q + 1
    IN  Rat(t, ROUND_DIGITS_SCALE)

(***************************************************************************)
(* PredictionFactor and the confidence-weighted combination.                *)
(***************************************************************************)
PredictionFactor(name, value, weight, confidence) ==
    [name |-> name, value |-> value, weight |-> weight, confidence |-> confidence]

NumFactors == 7
MAX_CONFIDENCE == 85
BASE_CONFIDENCE == 50
CONFIDENCE_PER_POINT == 8

\* Mutant of CombineStep: the total weight forgets the confidence.
CombineStepWeightOnly(acc, factor) ==
    IF RPos(factor.confidence)
    THEN [twv |-> RAdd(acc.twv, RMul(RMul(factor.value, factor.weight), factor.confidence)),
          tw  |-> RAdd(acc.tw, factor.weight)]
    ELSE acc

\* Mutant of CombineStep: a plain weighted average over every factor.
CombineStepPlainAverage(acc, factor) ==
    [twv |-> RAdd(acc.twv, RMul(factor.value, factor.weight)),
     tw  |-> RAdd(acc.tw, factor.weight)]

\* One iteration of the loop over the factors: acc = [twv, tw].
CombineStep(acc, factor) ==
    IF RPos(factor.confidence)
    THEN [twv |-> RAdd(acc.twv, RMul(RMul(factor.value, factor.weight), factor.confidence)),
          tw  |-> RAdd(acc.tw, RMul(factor.weight, factor.confidence))]
    ELSE acc

RECURSIVE CombineLoop(_, _, _)
CombineLoop(factors, i, acc) ==
    IF i > Len(factors) THEN acc
    ELSE CombineLoop(factors, i + 1, CombineStep(acc, factors[i]))

PredictedSpread(totals) ==
    IF RPos(totals.tw) THEN RDiv(totals.twv, totals.tw) ELSE Zero

\* Mutant of SpreadConfidence: the cap is missing.
SpreadConfidenceUncapped(predicted_spread) ==
    RAdd(RMul(RAbs(predicted_spread), RInt(CONFIDENCE_PER_POINT)), RInt(BASE_CONFIDENCE))

SpreadConfidence(predicted_spread) ==
    RMin(RInt(MAX_CONFIDENCE),
         RAdd(RMul(RAbs(predicted_spread), RInt(CONFIDENCE_PER_POINT)), RInt(BASE_CONFIDENCE)))

\* Mutant of PickWinner: a spread of 0 goes to the home team.
PickWinnerTiesHome(predicted_spread, home_team, away_team) ==
    IF RLe(Zero, predicted_spread) THEN home_team.name ELSE away_team.name

PickWinner(predicted_spread, home_team, away_team) ==
    IF RPos(predicted_spread) THEN home_team.name ELSE away_team.name

CalculateFinalPrediction(factors, home_team, away_team) ==
    LET totals == CombineLoop(factors, 1, [twv |-> Zero, tw |-> Zero])
        predicted_spread == PredictedSpread(totals)
    IN  [winner     |-> PickWinner(predicted_spread, home_team, away_team),
         confidence |-> Round1(SpreadConfidence(predicted_spread)),
         spread     |-> Round1(predicted_spread),
         total      |-> "None"]

(***************************************************************************)
(* Python dicts are records; a missing key is a field outside the DOMAIN.   *)
(* A call that raises returns a record carrying the exception's class.      *)
(***************************************************************************)
Has(d, k) == k \in DOMAIN d
Get(d, k, default) == IF k \in DOMAIN d THEN d[k] ELSE default
Raise(exc) == [exc |-> exc]
Raised(x) == "exc" \in DOMAIN x
NoneRet == [none |-> TRUE]
IsNone(x) == "none" \in DOMAIN x

\* Python truthiness of a dict: an empty dict is falsy.
EmptyDict == [k \in {} |-> 0]
Truthy(d) == DOMAIN d # {}

(***************************************************************************)
(* config/data_sources.py: the stadium table, by team id; of a row only     *)
(* the dome flag is read.                                                   *)
(***************************************************************************)
DomeTeams == {"1", "6", "8", "11", "13", "16", "18", "22", "34"}
OpenAirTeams == {"2", "3", "4", "5", "7", "9", "10", "12", "14", "15", "17", "19", "20",
                 "21", "23", "24", "25", "26", "27", "28", "29", "30", "33"}

NFL_STADIUMS ==
    [t \in DomeTeams \cup OpenAirTeams |-> [dome |-> t \in DomeTeams]]

\* An id no dict can be keyed by (a list): NFL_STADIUMS.get raises TypeError.
UnhashableId == "<unhashable>"

(***************************************************************************)
(* AdvancedPredictionEngine.factor_weights and the optimizer's candidates.  *)
(***************************************************************************)
FactorKeys ==
    <<"team_strength", "head_to_head", "home_advantage", "rest_advantage",
      "weather_impact", "motivation", "injuries">>

Weights(ts, h2h, ha, rest, wx, mot, inj) ==
    [k \in {FactorKeys[i] : i \in 1..Len(FactorKeys)} |->
        Rat(CASE k = "team_strength" -> ts
              [] k = "head_to_head" -> h2h
              [] k = "home_advantage" -> ha
              [] k = "rest_advantage" -> rest
              [] k = "weather_impact" -> wx
              [] k = "motivation" -> mot
              [] OTHER -> inj, 100)]

DefaultWeights == Weights(35, 20, 15, 10, 10, 5, 5)

GenerateWeightCombinations ==
    << Weights(35, 20, 15, 10, 10, 5, 5),
       Weights(45, 15, 15, 10, 8, 4, 3),
       Weights(30, 30, 15, 10, 8, 4, 3) >>

\* test_weights.pop(factor_name): the configuration without that key.
WithoutKey(weights, key) == [k \in DOMAIN weights \ {key} |-> weights[k]]

(***************************************************************************)
(* The seven factor calculators.  Each is the try body with its except      *)
(* clause: Tried(body, handler) is handler when body raised.                *)
(***************************************************************************)
ErrorFactor(name) == PredictionFactor(name, Zero, Zero, Zero)

ZeroRecord == [wins |-> 0, losses |-> 0, ties |-> 0]
RecordComplete(r) == Has(r, "wins") /\ Has(r, "losses") /\ Has(r, "ties")
GamesPlayed(r) == r.wins + r.losses + r.ties
\* A win percentage that leaves the ties out, which the calculator does not do.
WinPctNoTies(r) == Rat(r.wins, GamesPlayed(r))

WinPct(r) == Rat(2 * r.wins + r.ties, 2 * GamesPlayed(r))

POINTS_PER_WIN_PCT == 14

TeamStrengthBody(home_team, away_team, weights) ==
    LET home_record == Get(home_team, "record", ZeroRecord)
        away_record == Get(away_team, "record", ZeroRecord)
    IN  IF ~RecordComplete(home_record) \/ ~RecordComplete(away_record)
        THEN Raise("KeyError")
        ELSE IF ~Has(weights, "team_strength") THEN Raise("KeyError")
        ELSE IF GamesPlayed(home_record) = 0 \/ GamesPlayed(away_record) = 0
        THEN PredictionFactor("Team Strength", Zero, weights["team_strength"], Rat(1, 10))
        ELSE PredictionFactor("Team Strength",
                 RMul(RSub(WinPct(home_record), WinPct(away_record)), RInt(POINTS_PER_WIN_PCT)),
                 weights["team_strength"],
                 RMin(Rat(9, 10), Rat(GamesPlayed(home_record) + GamesPlayed(away_record), 20)))

CalculateTeamStrengthFactor(home_team, away_team, weights) ==
    LET body == TeamStrengthBody(home_team, away_team, weights)
    IN  IF Raised(body) THEN ErrorFactor("Team Strength") ELSE body

(***************************************************************************)
(* SportsDatabase.get_games: SELECT * FROM games ORDER BY game_date DESC    *)
(* LIMIT ?.  The table is a set of rows keyed by espn_id; the rows of the   *)
(* model carry pairwise distinct dates, so the order is determined.         *)
(***************************************************************************)
FirstN(seq, n) == SubSeq(seq, 1, IF n < Len(seq) THEN n ELSE Len(seq))
LastN(seq, n) == SubSeq(seq, IF Len(seq) > n THEN Len(seq) - n + 1 ELSE 1, Len(seq))

Latest(rows) == CHOOSE r \in rows : \A o \in rows : o.game_date <= r.game_date

RECURSIVE OrderByDateDesc(_)
OrderByDateDesc(rows) ==
    IF rows = {} THEN <<>>
    ELSE <<Latest(rows)>> \o OrderByDateDesc(rows \ {Latest(rows)})

GetGames(rows, limit) == FirstN(OrderByDateDesc(rows), limit)

MATCHUP_QUERY_LIMIT == 100
\* A threshold of two meetings, which the calculator does not use.
OneMeetingFewer == 3 - 1
MIN_MEETINGS == 3
RECENT_MEETINGS == 5

IsMatchup(game, team1_id, team2_id) ==
    \/ game.home_team_id = team1_id /\ game.away_team_id = team2_id
    \/ game.home_team_id = team2_id /\ game.away_team_id = team1_id

\* _get_historical_matchups: the filter keeps the order of get_games.
GetHistoricalMatchups(team1_id, team2_id, rows) ==
    SelectSeq(GetGames(rows, MATCHUP_QUERY_LIMIT),
              LAMBDA game : IsMatchup(game, team1_id, team2_id))

\* The margin of one stored game from the current home team's side.
OrientedMargin(game, home_team_id) ==
    IF game.home_team_id = home_team_id
    THEN game.home_score - game.away_score
    ELSE game.away_score - game.home_score

RECURSIVE TotalPointDiff(_, _, _)
TotalPointDiff(recent_games, i, home_team_id) ==
    IF i > Len(recent_games) THEN 0
    ELSE OrientedMargin(recent_games[i], home_team_id)
         + TotalPointDiff(recent_games, i + 1, home_team_id)

HeadToHeadBody(home_team_id, away_team_id, weights, rows) ==
    LET historical_games == GetHistoricalMatchups(home_team_id, away_team_id, rows)
        recent_games == LastN(historical_games, RECENT_MEETINGS)
    IN  IF ~Has(weights, "head_to_head") THEN Raise("KeyError")
        ELSE IF Len(historical_games) < MIN_MEETINGS
        THEN PredictionFactor("Head-to-Head", Zero, weights["head_to_head"], Rat(2, 10))
        ELSE PredictionFactor("Head-to-Head",
                 Rat(TotalPointDiff(recent_games, 1, home_team_id), Len(recent_games)),
                 weights["head_to_head"],
                 RMin(Rat(8, 10), Rat(Len(recent_games), RECENT_MEETINGS)))

CalculateHeadToHeadFactor(home_team_id, away_team_id, weights, rows) ==
    LET body == HeadToHeadBody(home_team_id, away_team_id, weights, rows)
    IN  IF Raised(body) THEN ErrorFactor("Head-to-Head") ELSE body

\* A calculator without any edge for the hosts, which
\* _calculate_home_advantage_factor does not give.
HomeAdvantageBodyNoEdge(home_team_id, weights) ==
    IF home_team_id = UnhashableId THEN Raise("TypeError")
    ELSE IF ~Has(weights, "home_advantage") THEN Raise("KeyError")
    ELSE PredictionFactor("Home Advantage", Zero, weights["home_advantage"], Rat(9, 10))

\* base_advantage = 2.5, +0.5 under a dome.
HomeAdvantageBody(home_team_id, weights) ==
    IF home_team_id = UnhashableId THEN Raise("TypeError")
    ELSE IF ~Has(weights, "home_advantage") THEN Raise("KeyError")
    ELSE LET stadium_info == Get(NFL_STADIUMS, home_team_id, EmptyDict)
             base_advantage == IF Get(stadium_info, "dome", FALSE)
                               THEN RAdd(Rat(5, 2), Rat(1, 2)) ELSE Rat(5, 2)
         IN  PredictionFactor("Home Advantage", base_advantage,
                              weights["home_advantage"], Rat(9, 10))

\* The except clause reads factor_weights['home_advantage'] again.
HomeAdvantageHandler(weights) ==
    IF ~Has(weights, "home_advantage") THEN Raise("KeyError")
    ELSE PredictionFactor("Home Advantage", Rat(5, 2), weights["home_advantage"], Rat(8, 10))

CalculateHomeAdvantageFactor(home_team_id, weights) ==
    LET body == HomeAdvantageBody(home_team_id, weights)
    IN  IF Raised(body) THEN HomeAdvantageHandler(weights) ELSE body

\* A placeholder calculator: value 0, the configured weight, a fixed confidence.
PlaceholderFactor(name, key, confidence, weights) ==
    IF ~Has(weights, key) THEN ErrorFactor(name)
    ELSE PredictionFactor(name, Zero, weights[key], confidence)

CalculateRestFactor(game, weights) ==
    PlaceholderFactor("Rest Advantage", "rest_advantage", Rat(1, 10), weights)

CalculateMotivationFactor(game, weights) ==
    PlaceholderFactor("Motivation", "motivation", Rat(2, 10), weights)

CalculateInjuryFactor(home_team_id, away_team_id, weights) ==
    PlaceholderFactor("Injuries", "injuries", Rat(1, 10), weights)

\* A weather snapshot that is no dict (a bare string): weather.get raises.
NotADict == [not_a_dict |-> TRUE]

\* A calculator that reads the impact whatever the status, which
\* _calculate_weather_factor does not do.
WeatherBodyIgnoresStatus(game, weights) ==
    LET weather == Get(game, "weather", EmptyDict)
    IN  IF Has(weather, "not_a_dict") THEN Raise("AttributeError")
        ELSE IF ~Has(weights, "weather_impact") THEN Raise("KeyError")
        ELSE IF ~Truthy(weather)
        THEN PredictionFactor("Weather", Zero, weights["weather_impact"], Rat(9, 10))
        ELSE PredictionFactor("Weather",
                 RInt(Get(Get(weather, "game_impact", EmptyDict), "total_score_impact", 0)),
                 weights["weather_impact"], Rat(7, 10))

WeatherBody(game, weights) ==
    LET weather == Get(game, "weather", EmptyDict)
    IN  IF Has(weather, "not_a_dict") THEN Raise("AttributeError")
        ELSE IF ~Has(weights, "weather_impact") THEN Raise("KeyError")
        ELSE IF ~Truthy(weather) \/ Get(weather, "status", "None") = "not_needed"
        THEN PredictionFactor("Weather", Zero, weights["weather_impact"], Rat(9, 10))
        ELSE IF Get(weather, "status", "None") = "unavailable"
        THEN PredictionFactor("Weather", Zero, weights["weather_impact"], Rat(1, 10))
        ELSE LET game_impact == Get(weather, "game_impact", EmptyDict)
                 total_impact == Get(game_impact, "total_score_impact", 0)
             IN  PredictionFactor("Weather", RInt(total_impact),
                                  weights["weather_impact"], Rat(7, 10))

CalculateWeatherFactor(game, weights) ==
    LET body == WeatherBody(game, weights)
    IN  IF Raised(body) THEN ErrorFactor("Weather") ELSE body

(***************************************************************************)
(* AdvancedPredictionEngine._predict_single_game and predict_games.         *)
(* weights is the engine's factor_weights, rows the games table it reads.   *)
(***************************************************************************)
GamePrediction(game, home_team, away_team, factors) ==
    LET prediction_result == CalculateFinalPrediction(factors, home_team, away_team)
    IN  [game_id           |-> game.espn_id,
         home_team         |-> home_team.name,
         away_team         |-> away_team.name,
         predicted_winner  |-> prediction_result.winner,
         confidence        |-> prediction_result.confidence,
         spread_prediction |-> prediction_result.spread,
         total_prediction  |-> prediction_result.total,
         factors           |-> factors]

IsPrediction(x) == "predicted_winner" \in DOMAIN x

\* Variant: a game that is over is predicted as well.
IsScheduledOrFinal(game) ==
    Get(game, "status", "None") \in {"STATUS_SCHEDULED", "STATUS_FINAL"}

IsScheduled(game) == Get(game, "status", "None") = "STATUS_SCHEDULED"

PredictSingleGame(game, weights, rows) ==
    IF ~IsScheduled(game) THEN NoneRet
    ELSE IF ~Has(game, "home_team") \/ ~Has(game, "away_team") THEN Raise("KeyError")
    ELSE LET home_team == game.home_team
             away_team == game.away_team
         IN  IF ~Has(home_team, "id") \/ ~Has(away_team, "id") THEN Raise("KeyError")
             ELSE LET home_advantage == CalculateHomeAdvantageFactor(home_team.id, weights)
                      factors ==
                          << CalculateTeamStrengthFactor(home_team, away_team, weights),
                             CalculateHeadToHeadFactor(home_team.id, away_team.id, weights, rows),
                             home_advantage,
                             CalculateRestFactor(game, weights),
                             CalculateWeatherFactor(game, weights),
                             CalculateMotivationFactor(game, weights),
                             CalculateInjuryFactor(home_team.id, away_team.id, weights) >>
                  IN  IF Raised(home_advantage) THEN home_advantage
                      ELSE IF ~Has(home_team, "name") \/ ~Has(away_team, "name")
                      THEN Raise("KeyError")
                      ELSE IF ~Has(game, "espn_id") THEN Raise("KeyError")
                      ELSE GamePrediction(game, home_team, away_team, factors)

\* The loop of predict_games: a prediction is appended when it is truthy; a
\* game whose prediction raises is logged and skipped.
RECURSIVE PredictLoop(_, _, _, _)
PredictLoop(games_data, i, weights, rows) ==
    IF i > Len(games_data) THEN <<>>
    ELSE LET prediction == PredictSingleGame(games_data[i], weights, rows)
         IN  (IF IsPrediction(prediction) THEN <<prediction>> ELSE <<>>)
             \o PredictLoop(games_data, i + 1, weights, rows)

\* `if not games_data`: None and the empty list both fetch the current games
\* from the data manager (fetched is what get_prediction_data()['games'] holds).
GamesToPredict(games_data, fetched) ==
    IF games_data = <<>> THEN fetched ELSE games_data

PredictGames(games_data, fetched, weights, rows) ==
    PredictLoop(GamesToPredict(games_data, fetched), 1, weights, rows)

(***************************************************************************)
(* Backtester: the replay of one stored game.  Its prediction_engine is a   *)
(* fresh AdvancedPredictionEngine (DefaultWeights) on the same database.    *)
(* The weather_data column is NULL or a JSON text.                          *)
(***************************************************************************)
Null == [null |-> TRUE]
IsNull(x) == "null" \in DOMAIN x
JsonDumps(value) == [json |-> value]
JsonLoads(text) == text.json

HISTORY_QUERY_LIMIT == 500

IsGameCompleted(game) ==
    \/ Get(game, "status", "None") = "STATUS_FINAL"
    \/ Get(game, "home_score", 0) > 0
    \/ Get(game, "away_score", 0) > 0

\* The history without the filter for completed games, which
\* _get_historical_games does apply.
GetHistoricalGamesUnfiltered(rows) == GetGames(rows, HISTORY_QUERY_LIMIT)

GetHistoricalGames(rows) ==
    SelectSeq(GetGames(rows, HISTORY_QUERY_LIMIT), IsGameCompleted)

\* The engine-format matchup rebuilt from a stored row.
HistoricalGameData(game) ==
    [espn_id   |-> game.espn_id,
     status    |-> "STATUS_SCHEDULED",
     home_team |-> [id |-> game.home_team_id, name |-> game.home_team_name,
                    record |-> ZeroRecord],
     away_team |-> [id |-> game.away_team_id, name |-> game.away_team_name,
                    record |-> ZeroRecord],
     weather   |-> IF IsNull(game.weather_data) THEN EmptyDict
                   ELSE JsonLoads(game.weather_data)]

\* engine_weights: the factor_weights of the engine the backtester holds.
PredictHistoricalGame(game, engine_weights, rows) ==
    LET prediction == PredictSingleGame(HistoricalGameData(game), engine_weights, rows)
    IN  IF Raised(prediction) THEN NoneRet ELSE prediction

\* A reading of the result that gives a drawn game to the hosts, which
\* _get_actual_winner does not do.
GetActualWinnerTiesHome(game) ==
    IF Get(game, "away_score", 0) > Get(game, "home_score", 0)
    THEN game.away_team_name
    ELSE game.home_team_name

\* A reading of the result that names the hosts whatever the score.
GetActualWinnerAlwaysHome(game) == game.home_team_name

GetActualWinner(game) ==
    LET home_score == Get(game, "home_score", 0)
        away_score == Get(game, "away_score", 0)
    IN  IF home_score > away_score THEN game.home_team_name
        ELSE IF away_score > home_score THEN game.away_team_name
        ELSE "TIE"

(***************************************************************************)
(* AlgorithmOptimizer: the weight search.                                   *)
(***************************************************************************)
SAMPLE_SIZE == 50
MAX_TESTS == 10

CreateTestEngine(weights) == weights

\* One pass of the counting loop of _run_test_backtest: a game that is not
\* completed or has no prediction is skipped.
TestBacktestStep(acc, game, prediction) ==
    IF ~IsGameCompleted(game) \/ ~IsPrediction(prediction) THEN acc
    ELSE [acc EXCEPT !.correct = @ + (IF prediction.predicted_winner = GetActualWinner(game)
                                      THEN 1 ELSE 0),
                     !.total = @ + 1]

\* The loop over the sampled games; every prediction is made by
\* self.backtester, whose engine has backtester_weights.
RECURSIVE TestBacktestLoop(_, _, _, _, _)
TestBacktestLoop(historical_games, i, acc, backtester_weights, rows) ==
    IF i > Len(historical_games) THEN acc
    ELSE TestBacktestLoop(historical_games, i + 1,
             TestBacktestStep(acc, historical_games[i],
                 PredictHistoricalGame(historical_games[i], backtester_weights, rows)),
             backtester_weights, rows)

TestBacktestResults(counts) ==
    [accuracy |-> IF counts.total > 0 THEN Rat(counts.correct, counts.total) ELSE Zero,
     completed_games |-> counts.total,
     correct_predictions |-> counts.correct]

\* engine is the test engine handed in; the body never reads it.
RunTestBacktest(engine, rows) ==
    LET historical_games == FirstN(GetHistoricalGames(rows), SAMPLE_SIZE)
    IN  IF historical_games = <<>>
        THEN [accuracy |-> Zero, completed_games |-> 0]
        ELSE TestBacktestResults(
                 TestBacktestLoop(historical_games, 1, [correct |-> 0, total |-> 0],
                                  DefaultWeights, rows))

\* Whether a candidate replaces the best seen so far.
Improves(accuracy, best_accuracy) == RLt(best_accuracy, accuracy)

\* One pass of the search loop: the best-so-far is replaced on a strict
\* improvement, and the candidate is logged either way.
OptimizeStep(st, weights, backtest_results) ==
    IF Improves(backtest_results.accuracy, st.best_accuracy)
    THEN [best_accuracy |-> backtest_results.accuracy,
          best_weights  |-> weights,
          best_results  |-> backtest_results,
          all_tests     |-> Append(st.all_tests,
                                   [weights     |-> weights,
                                    accuracy    |-> backtest_results.accuracy,
                                    total_games |-> backtest_results.completed_games])]
    ELSE [st EXCEPT !.all_tests = Append(@,
                                   [weights     |-> weights,
                                    accuracy    |-> backtest_results.accuracy,
                                    total_games |-> backtest_results.completed_games])]

RECURSIVE OptimizeLoop(_, _, _, _)
OptimizeLoop(test_combinations, i, st, rows) ==
    IF i > Len(test_combinations) THEN st
    ELSE OptimizeLoop(test_combinations, i + 1,
             OptimizeStep(st, test_combinations[i],
                 RunTestBacktest(CreateTestEngine(test_combinations[i]), rows)),
             rows)

OptimizeFactorWeights(rows) ==
    OptimizeLoop(FirstN(GenerateWeightCombinations, MAX_TESTS), 1,
                 [best_accuracy |-> Zero, best_weights |-> NoneRet,
                  best_results |-> NoneRet, all_tests |-> <<>>],
                 rows)

(***************************************************************************)
(* Bounds of the model and the inputs drawn within them.                    *)
(***************************************************************************)
MaxValue == 5     \* magnitude of the factor values fed to the combination
MaxGames == 3     \* rows in the games table
MaxScore == 2     \* points a side scores in a stored game
MaxBatch == 2     \* matchups handed to predict_games in one call
MaxRecord == 10   \* wins or losses in a team record
BlowoutScore == 10  \* points of the home side in a one-sided stored game
MaxSaved == 1     \* rows in the predictions table
MaxWeight == 20   \* largest weight, in hundredths, of a baseline configuration
MaxBets == 10     \* right predictions handed to the betting simulation
MaxMeetings == 6  \* stored games between the same two teams
MaxStored == 2    \* rows in the predictions table of the store frame

Falcons == [id |-> "1", name |-> "Atlanta Falcons"]
Bills == [id |-> "2", name |-> "Buffalo Bills"]
TeamPairs == {<<Falcons, Bills>>, <<Bills, Falcons>>}

NoCall == [op |-> "none", args |-> <<>>, ret |-> <<>>]
Pending == [pending |-> TRUE]
IsPending(x) == "pending" \in DOMAIN x
Idle == call.op = "none"

\* The caller drops the value returned to it.
Return ==
    /\ ~Idle
    /\ call' = NoCall
    /\ UNCHANGED <<db_games, db_predictions, collector_vars>>

(***************************************************************************)
(* CombineSpec: _calculate_final_prediction as a pure function of a list of *)
(* NumFactors factors and the two teams.                                    *)
(***************************************************************************)
FactorPool ==
    { PredictionFactor("f", RInt(v), Rat(35, 100), Rat(9, 10)) : v \in {0 - MaxValue, 0, MaxValue} }
    \cup { PredictionFactor("f", RInt(1), Rat(5, 100), Rat(1, 10)),
           PredictionFactor("f", RInt(MaxValue), RInt(1), Zero) }

CombineInit ==
    /\ db_games = {}
    /\ db_predictions = <<>>
    /\ CollectorIdle
    /\ \E factors \in [1..NumFactors -> FactorPool] :
           call = [op   |-> "_calculate_final_prediction",
                   args |-> [factors |-> factors, home_team |-> Falcons,
                             away_team |-> Bills],
                   ret  |-> Pending]

Combine ==
    /\ call.op = "_calculate_final_prediction"
    /\ IsPending(call.ret)
    /\ call' = [call EXCEPT !.ret = CalculateFinalPrediction(call.args.factors,
                                        call.args.home_team, call.args.away_team)]
    /\ UNCHANGED <<db_games, db_predictions, collector_vars>>

CombineNext == Combine

CombineSpec == CombineInit /\ [][CombineNext]_vars

(***************************************************************************)
(* The combination, stated over the factor list (not over the loop).        *)
(***************************************************************************)
Combined == call.op = "_calculate_final_prediction" /\ ~IsPending(call.ret)

RECURSIVE SigmaValueWeightConf(_, _)
SigmaValueWeightConf(factors, n) ==
    IF n = 0 THEN Zero
    ELSE RAdd(SigmaValueWeightConf(factors, n - 1),
              IF RPos(factors[n].confidence)
              THEN RMul(factors[n].value, RMul(factors[n].weight, factors[n].confidence))
              ELSE Zero)

RECURSIVE SigmaWeightConf(_, _)
SigmaWeightConf(factors, n) ==
    IF n = 0 THEN Zero
    ELSE RAdd(SigmaWeightConf(factors, n - 1),
              RMul(factors[n].weight, factors[n].confidence))

WeightedSumOf(factors) == SigmaValueWeightConf(factors, Len(factors))
WeightSumOf(factors) == SigmaWeightConf(factors, Len(factors))
WeightedAverageOf(factors) == RDiv(WeightedSumOf(factors), WeightSumOf(factors))
IsTenths(x) == ROUND_DIGITS_SCALE % x.d = 0

\* C1: every result of the combination has a confidence in [50, 85] and names
\* the home team or the away team as winner, never "TIE" or anything else.
C1_ConfidenceAndWinnerInRange ==
    Combined =>
        /\ RLe(RInt(50), call.ret.confidence)
        /\ RLe(call.ret.confidence, RInt(85))
        /\ call.ret.winner \in {call.args.home_team.name, call.args.away_team.name}
        /\ call.ret.winner # "TIE"

\* C1 witness: a combination whose spread is large enough for the cap of 85 to bind.
C1_Witness ==
    /\ Combined
    /\ call.ret.confidence = RInt(85)
    /\ RLt(RInt(85), RAdd(RMul(RAbs(WeightedAverageOf(call.args.factors)), RInt(8)), RInt(50)))
    /\ call.ret.winner = call.args.home_team.name

\* C2 as claimed: the spread equals the confidence-weighted average
\* sum(v*w*c) / sum(w*c), and it is 0 exactly when sum(w*c) is 0.
C2_SpreadIsExactWeightedAverage ==
    Combined =>
        /\ WeightSumOf(call.args.factors) # Zero
              => call.ret.spread = WeightedAverageOf(call.args.factors)
        /\ (call.ret.spread = Zero) <=> (WeightSumOf(call.args.factors) = Zero)

\* C2 amended: when sum(w*c) > 0 the spread is the confidence-weighted average
\* rounded to one decimal (a multiple of 0.1 within 0.05 of it); when
\* sum(w*c) is 0 the spread is 0.
C2_SpreadIsRoundedWeightedAverage ==
    Combined =>
        IF RPos(WeightSumOf(call.args.factors))
        THEN /\ IsTenths(call.ret.spread)
             /\ RLe(RAbs(RSub(call.ret.spread, WeightedAverageOf(call.args.factors))),
                    Rat(1, 20))
        ELSE call.ret.spread = Zero

\* C2 witness: a nonzero spread that differs from the exact average it rounds.
C2_Witness ==
    /\ Combined
    /\ RPos(WeightSumOf(call.args.factors))
    /\ call.ret.spread # Zero
    /\ call.ret.spread # WeightedAverageOf(call.args.factors)

\* C3 as claimed: the winner is the home team when the reported spread is
\* greater than 0 and the away team otherwise (a spread of 0 names the away team).
C3_WinnerFollowsReportedSpread ==
    Combined =>
        call.ret.winner = (IF RPos(call.ret.spread) THEN call.args.home_team.name
                           ELSE call.args.away_team.name)

\* C3 amended: the winner is the home team exactly when the unrounded
\* weighted average is greater than 0; hence a reported spread above 0 names
\* the home team, one below 0 the away team, and a reported spread of 0.0
\* names the home team only when the unrounded average is positive.
C3_WinnerFollowsUnroundedSpread ==
    Combined =>
        LET positive == /\ RPos(WeightSumOf(call.args.factors))
                        /\ RPos(WeightedAverageOf(call.args.factors))
        IN  /\ call.ret.winner = (IF positive THEN call.args.home_team.name
                                  ELSE call.args.away_team.name)
            /\ RPos(call.ret.spread) => call.ret.winner = call.args.home_team.name
            /\ RLt(call.ret.spread, Zero) => call.ret.winner = call.args.away_team.name

\* C3 witness: a reported spread of 0.0 whose winner is the home team.
C3_Witness ==
    /\ Combined
    /\ call.ret.spread = Zero
    /\ call.ret.winner = call.args.home_team.name

\* C4: when every factor has confidence 0 the spread is 0 and the away team wins.
C4_AllZeroConfidenceFavoursAway ==
    Combined /\ (\A i \in 1..NumFactors : call.args.factors[i].confidence = Zero)
        => /\ call.ret.spread = Zero
           /\ call.ret.winner = call.args.away_team.name

\* C4 witness: seven zero-confidence factors with nonzero values and weights, combined.
C4_Witness ==
    /\ Combined
    /\ \A i \in 1..NumFactors :
           /\ call.args.factors[i].confidence = Zero
           /\ RPos(call.args.factors[i].value)
           /\ RPos(call.args.factors[i].weight)
    /\ call.ret.winner = call.args.away_team.name

(***************************************************************************)
(* analyze_factor_importance builds, for each factor, the configuration     *)
(* without its key, the removed weight spread over the remaining keys.      *)
(***************************************************************************)
RECURSIVE SumWeights(_, _)
SumWeights(weights, n) ==
    IF n = 0 THEN Zero
    ELSE RAdd(SumWeights(weights, n - 1), Get(weights, FactorKeys[n], Zero))

\* A redistribution in equal shares, which analyze_factor_importance does not do.
AblatedWeightsEvenSplit(base, factor_name) ==
    [k \in DOMAIN base \ {factor_name} |->
        RAdd(base[k], RDiv(base[factor_name], RInt(Cardinality(DOMAIN base) - 1)))]

AblatedWeights(base, factor_name) ==
    LET test_weights == WithoutKey(base, factor_name)
        removed_weight == base[factor_name]
        total_remaining == SumWeights(test_weights, Len(FactorKeys))
    IN  IF RPos(total_remaining)
        THEN [k \in DOMAIN test_weights |->
                 RAdd(test_weights[k],
                      RDiv(RMul(removed_weight, test_weights[k]), total_remaining))]
        ELSE test_weights

(***************************************************************************)
(* CalcSpec: each factor calculator as a pure function of its arguments and *)
(* of the engine's factor_weights, which is the default configuration, a    *)
(* search candidate or an ablated configuration.                            *)
(***************************************************************************)
WeightConfigs ==
    {GenerateWeightCombinations[i] : i \in 1..Len(GenerateWeightCombinations)}
    \cup {AblatedWeights(DefaultWeights, FactorKeys[i]) : i \in 1..Len(FactorKeys)}

RecordInputs ==
    { [wins |-> w, losses |-> l, ties |-> t] : w, l \in {0, MaxRecord}, t \in {0, 1} }
    \cup { [wins |-> MaxRecord, losses |-> 0] }

TeamInputs(team) ==
    { [id |-> team.id, name |-> team.name, record |-> r] : r \in RecordInputs }
    \cup { team }

ScorePairs == { <<0, 0>>, <<MaxScore, 0>>, <<0, MaxScore>>, <<BlowoutScore, 0>> }

\* A row of the games table; game k is played on day k.
GameRow(k, teams, status, scores, weather_data) ==
    [espn_id        |-> ToString(k),
     game_date      |-> k,
     home_team_id   |-> teams[1].id,
     home_team_name |-> teams[1].name,
     away_team_id   |-> teams[2].id,
     away_team_name |-> teams[2].name,
     status         |-> status,
     home_score     |-> scores[1],
     away_score     |-> scores[2],
     weather_data   |-> weather_data]

\* n meetings of the two teams, all with the same hosts and score.
Meetings(n, teams, scores) ==
    { GameRow(k, teams, "STATUS_FINAL", scores, JsonDumps(EmptyDict)) : k \in 1..n }

MeetingInputs ==
    { Meetings(n, teams, scores) : n \in 0..MaxGames, teams \in TeamPairs, scores \in ScorePairs }

WeatherInputs ==
    { EmptyDict,
      NotADict,
      [status |-> "not_needed"],
      [status |-> "unavailable"],
      [conditions |-> "clear"],
      [conditions |-> "Snow", game_impact |-> [total_score_impact |-> 0 - 3]] }

\* Snapshots that carry a status next to a computed impact.
StatusWithImpact ==
    { [status |-> status, game_impact |-> [total_score_impact |-> 0 - 3]] :
          status \in {"not_needed", "unavailable", "ok"} }

GameInputs ==
    { [espn_id |-> "401", weather |-> w] : w \in WeatherInputs \cup StatusWithImpact }
    \cup { [espn_id |-> "401"] }

HomeIdInputs == {"1", "2", "99", UnhashableId}

CalcCall(op, args) == [op |-> op, args |-> args, ret |-> Pending]

CalcInit ==
    /\ db_games = {}
    /\ db_predictions = <<>>
    /\ CollectorIdle
    /\ \E weights \in WeightConfigs :
        \/ \E home \in TeamInputs(Falcons), away \in TeamInputs(Bills) :
              call = CalcCall("_calculate_team_strength_factor",
                              [weights |-> weights, home_team |-> home, away_team |-> away])
        \/ \E teams \in TeamPairs, rows \in MeetingInputs :
              call = CalcCall("_calculate_head_to_head_factor",
                              [weights |-> weights, home_team_id |-> teams[1].id,
                               away_team_id |-> teams[2].id, rows |-> rows])
        \/ \E id \in HomeIdInputs :
              call = CalcCall("_calculate_home_advantage_factor",
                              [weights |-> weights, home_team_id |-> id])
        \/ \E game \in GameInputs,
              op \in {"_calculate_rest_factor", "_calculate_weather_factor",
                      "_calculate_motivation_factor"} :
              call = CalcCall(op, [weights |-> weights, game |-> game])
        \/ \E teams \in TeamPairs :
              call = CalcCall("_calculate_injury_factor",
                              [weights |-> weights, home_team_id |-> teams[1].id,
                               away_team_id |-> teams[2].id])

Calc(op, result) ==
    /\ call.op = op
    /\ IsPending(call.ret)
    /\ call' = [call EXCEPT !.ret = result]
    /\ UNCHANGED <<db_games, db_predictions, collector_vars>>

TeamStrength ==
    Calc("_calculate_team_strength_factor",
         CalculateTeamStrengthFactor(call.args.home_team, call.args.away_team,
                                     call.args.weights))
HeadToHead ==
    Calc("_calculate_head_to_head_factor",
         CalculateHeadToHeadFactor(call.args.home_team_id, call.args.away_team_id,
                                   call.args.weights, call.args.rows))
HomeAdvantage ==
    Calc("_calculate_home_advantage_factor",
         CalculateHomeAdvantageFactor(call.args.home_team_id, call.args.weights))
Rest ==
    Calc("_calculate_rest_factor", CalculateRestFactor(call.args.game, call.args.weights))
Weather ==
    Calc("_calculate_weather_factor", CalculateWeatherFactor(call.args.game, call.args.weights))
Motivation ==
    Calc("_calculate_motivation_factor",
         CalculateMotivationFactor(call.args.game, call.args.weights))
Injury ==
    Calc("_calculate_injury_factor",
         CalculateInjuryFactor(call.args.home_team_id, call.args.away_team_id,
                               call.args.weights))

CalcNext ==
    \/ TeamStrength
    \/ HeadToHead
    \/ HomeAdvantage
    \/ Rest
    \/ Weather
    \/ Motivation
    \/ Injury

CalcSpec == CalcInit /\ [][CalcNext]_vars

CalcOps ==
    {"_calculate_team_strength_factor", "_calculate_head_to_head_factor",
     "_calculate_home_advantage_factor", "_calculate_rest_factor",
     "_calculate_weather_factor", "_calculate_motivation_factor",
     "_calculate_injury_factor"}

Calculated == call.op \in CalcOps /\ ~IsPending(call.ret)

\* Whether the calculator's try body raised on the arguments of the call.
InternalError ==
    CASE call.op = "_calculate_team_strength_factor" ->
             Raised(TeamStrengthBody(call.args.home_team, call.args.away_team,
                                     call.args.weights))
      [] call.op = "_calculate_head_to_head_factor" ->
             Raised(HeadToHeadBody(call.args.home_team_id, call.args.away_team_id,
                                   call.args.weights, call.args.rows))
      [] call.op = "_calculate_home_advantage_factor" ->
             Raised(HomeAdvantageBody(call.args.home_team_id, call.args.weights))
      [] call.op = "_calculate_weather_factor" ->
             Raised(WeatherBody(call.args.game, call.args.weights))
      [] call.op = "_calculate_rest_factor" -> ~Has(call.args.weights, "rest_advantage")
      [] call.op = "_calculate_motivation_factor" -> ~Has(call.args.weights, "motivation")
      [] OTHER -> ~Has(call.args.weights, "injuries")

\* C6 as claimed: a calculator never raises to its caller, and whenever an
\* internal error occurred the Factor it returns has value 0 and confidence 0.
C6_CalculatorsNeverRaise ==
    Calculated =>
        /\ ~Raised(call.ret)
        /\ InternalError => call.ret.value = Zero /\ call.ret.confidence = Zero

(***************************************************************************)
(* The games table.  A save is an INSERT OR REPLACE on the unique espn_id.  *)
(***************************************************************************)
\* What a call reads of the games table.  A read that fails raises inside
\* get_games; _get_historical_games and _get_historical_matchups catch it and
\* return the empty list, as for an empty table.
Visible(rows, readable) == IF readable THEN rows ELSE {}

StoredResults ==
    { <<"STATUS_FINAL", scores>> : scores \in ScorePairs }
    \cup { <<"STATUS_SCHEDULED", <<0, 0>>>> }

InsertOrReplace(rows, row) ==
    { r \in rows : r.espn_id # row.espn_id } \cup {row}

SaveGame ==
    /\ Idle
    /\ \E k \in 1..MaxGames, teams \in TeamPairs, result \in StoredResults :
          db_games' = InsertOrReplace(db_games,
                          GameRow(k, teams, result[1], result[2], JsonDumps(EmptyDict)))
    /\ UNCHANGED <<db_predictions, call, collector_vars>>

(***************************************************************************)
(* Spec: one AdvancedPredictionEngine (default factor_weights) over the     *)
(* games table, called with single matchups and with batches.               *)
(***************************************************************************)
StrongTeam(team) ==
    [id |-> team.id, name |-> team.name,
     record |-> [wins |-> MaxRecord, losses |-> 0, ties |-> 0]]
WeakTeam(team) ==
    [id |-> team.id, name |-> team.name,
     record |-> [wins |-> 0, losses |-> MaxRecord, ties |-> 0]]

Matchup(espn_id, status, home_team, away_team, weather) ==
    [espn_id |-> espn_id, status |-> status, home_team |-> home_team,
     away_team |-> away_team, weather |-> weather]

ScheduledInputs ==
    { Matchup("401", "STATUS_SCHEDULED", home, away, [status |-> "not_needed"]) :
          <<home, away>> \in { <<StrongTeam(Falcons), WeakTeam(Bills)>>,
                               <<WeakTeam(Bills), StrongTeam(Falcons)>>,
                               <<Bills, Falcons>> } }

MatchupInputs ==
    ScheduledInputs
    \cup { Matchup("402", status, StrongTeam(Bills), WeakTeam(Falcons), EmptyDict) :
               status \in {"STATUS_FINAL", "STATUS_IN_PROGRESS"} }
    \cup { [invalid |-> "data"],
           [espn_id |-> "403", status |-> "STATUS_SCHEDULED"],
           [espn_id |-> "404", status |-> "STATUS_SCHEDULED",
            home_team |-> [name |-> "Atlanta Falcons"],
            away_team |-> [name |-> "Buffalo Bills"]] }

BatchInputs ==
    { Matchup("401", "STATUS_SCHEDULED", StrongTeam(Falcons), WeakTeam(Bills), EmptyDict),
      Matchup("402", "STATUS_FINAL", StrongTeam(Bills), WeakTeam(Falcons), EmptyDict),
      [espn_id |-> "403", status |-> "STATUS_SCHEDULED"] }

Batches == UNION { [1..n -> BatchInputs] : n \in 0..MaxBatch }

\* What the data manager's get_prediction_data()['games'] may hold when asked.
FetchedInputs ==
    { <<>>,
      << Matchup("405", "STATUS_SCHEDULED", Bills, Falcons, [status |-> "unavailable"]) >> }

Predict ==
    /\ Idle
    /\ \E game \in MatchupInputs :
          call' = [op   |-> "_predict_single_game",
                   args |-> [game |-> game],
                   ret  |-> PredictSingleGame(game, DefaultWeights, db_games)]
    /\ UNCHANGED <<db_games, db_predictions, collector_vars>>

PredictMany ==
    /\ Idle
    /\ \E games_data \in Batches, fetched \in FetchedInputs :
          /\ games_data # <<>> => fetched = <<>>
          /\ call' = [op   |-> "predict_games",
                      args |-> [games_data |-> games_data, fetched |-> fetched],
                      ret  |-> PredictGames(games_data, fetched, DefaultWeights, db_games)]
    /\ UNCHANGED <<db_games, db_predictions, collector_vars>>

Init ==
    /\ db_games = {}
    /\ db_predictions = <<>>
    /\ CollectorIdle
    /\ call = NoCall

Next ==
    \/ SaveGame
    \/ Predict
    \/ PredictMany
    \/ Return

Spec == Init /\ [][Next]_vars

Predicted == call.op = "_predict_single_game"

StatusOf(game) == IF "status" \in DOMAIN game THEN game.status ELSE "None"

HasTeam(game, side) ==
    /\ side \in DOMAIN game
    /\ {"id", "name"} \subseteq DOMAIN game[side]

WellFormed(game) ==
    /\ "espn_id" \in DOMAIN game
    /\ HasTeam(game, "home_team")
    /\ HasTeam(game, "away_team")

\* C5: predict on a matchup whose status is not scheduled (a record without
\* status and team fields included) returns None, no exception and no
\* Prediction; predict on a well-formed scheduled matchup returns a Prediction.
C5_OnlyScheduledMatchupsArePredicted ==
    Predicted =>
        /\ StatusOf(call.args.game) # "STATUS_SCHEDULED" => call.ret = NoneRet
        /\ StatusOf(call.args.game) = "STATUS_SCHEDULED" /\ WellFormed(call.args.game)
               => /\ IsPrediction(call.ret)
                  /\ call.ret.game_id = call.args.game.espn_id
                  /\ call.ret.predicted_winner \in {call.args.game.home_team.name,
                                                    call.args.game.away_team.name}

C5_Witness ==
    /\ Predicted
    /\ call.args.game = [invalid |-> "data"]
    /\ call.ret = NoneRet
    /\ db_games # {}

BatchCalled == call.op = "predict_games"

\* The predictions of the supplied matchups that are eligible and do not fail,
\* in input order.
RECURSIVE PredictionsOfSupplied(_, _)
PredictionsOfSupplied(games_data, rows) ==
    IF games_data = <<>> THEN <<>>
    ELSE LET prediction == PredictSingleGame(Head(games_data), DefaultWeights, rows)
         IN  (IF IsPrediction(prediction) THEN <<prediction>> ELSE <<>>)
             \o PredictionsOfSupplied(Tail(games_data), rows)

\* C7 as claimed: for every finite sequence handed to predict_many, the empty
\* one included, the result is exactly the Predictions of the supplied
\* matchups that are eligible and do not fail, in input order; no Prediction
\* is for a game that was not supplied.
C7_BatchIsPredictionsOfSupplied ==
    BatchCalled =>
        /\ call.ret = PredictionsOfSupplied(call.args.games_data, db_games)
        /\ \A i \in 1..Len(call.ret) :
               \E j \in 1..Len(call.args.games_data) :
                   call.args.games_data[j].espn_id = call.ret[i].game_id

(***************************************************************************)
(* EvalSpec: the Backtester and the AlgorithmOptimizer over the games       *)
(* table.  Both hold engines built with the default factor_weights.         *)
(***************************************************************************)
PredictHistorical ==
    /\ Idle
    /\ \E game \in db_games :
          /\ IsGameCompleted(game)
          /\ call' = [op   |-> "_predict_historical_game",
                      args |-> [game |-> game],
                      ret  |-> PredictHistoricalGame(game, DefaultWeights, db_games)]
    /\ UNCHANGED <<db_games, db_predictions, collector_vars>>

SearchWeights ==
    /\ Idle
    /\ \E readable \in BOOLEAN :
          call' = [op   |-> "optimize_factor_weights",
                   args |-> [readable |-> readable],
                   ret  |-> OptimizeFactorWeights(Visible(db_games, readable))]
    /\ UNCHANGED <<db_games, db_predictions, collector_vars>>

Replayed == call.op = "_predict_historical_game"

\* The corpus in which the stored final score of game is scores instead.
WithFinalScore(rows, game, scores) ==
    InsertOrReplace(rows, [game EXCEPT !.home_score = scores[1], !.away_score = scores[2]])

\* C8 as claimed: the Prediction replayed for a completed game g is the same
\* in every corpus that differs from the stored one only in g's final score.
C8_OutcomeHiddenFromReplay ==
    Replayed /\ call.args.game.status = "STATUS_FINAL" =>
        \A scores \in ScorePairs :
            LET other == WithFinalScore(db_games, call.args.game, scores)
                g == CHOOSE r \in other : r.espn_id = call.args.game.espn_id
            IN  PredictHistoricalGame(g, DefaultWeights, other) = call.ret

Searched == call.op = "optimize_factor_weights"

\* The accuracy on the sampled games of an engine whose factor_weights are
\* the candidate's.
CandidateAccuracy(weights, rows) ==
    TestBacktestResults(
        TestBacktestLoop(FirstN(GetHistoricalGames(rows), SAMPLE_SIZE), 1,
                         [correct |-> 0, total |-> 0], weights, rows)).accuracy

\* C9 as claimed: the accuracy logged for each candidate is the accuracy of
\* predicting the sampled games with an engine that has the candidate's weights.
C9_LoggedAccuracyIsTheCandidates ==
    Searched =>
        \A i \in 1..Len(call.ret.all_tests) :
            call.ret.all_tests[i].accuracy
                = CandidateAccuracy(call.ret.all_tests[i].weights,
                                    Visible(db_games, call.args.readable))

RECURSIVE MaxLoggedAccuracy(_)
MaxLoggedAccuracy(log) ==
    IF Len(log) = 1 THEN log[1].accuracy
    ELSE LET rest == MaxLoggedAccuracy(Tail(log))
         IN  IF RLt(log[1].accuracy, rest) THEN rest ELSE log[1].accuracy

EarliestBest(log) ==
    LET i == CHOOSE i \in 1..Len(log) :
                 /\ log[i].accuracy = MaxLoggedAccuracy(log)
                 /\ \A j \in 1..(i - 1) : log[j].accuracy # MaxLoggedAccuracy(log)
    IN  log[i].weights

\* C10 as claimed, for a search that had games to sample: the best
\* configuration returned is the earliest candidate whose logged accuracy is
\* the maximum of the log, and best_accuracy is that maximum.
C10_BestIsEarliestMaximum ==
    Searched /\ call.ret.all_tests[1].total_games > 0 =>
        /\ call.ret.best_weights = EarliestBest(call.ret.all_tests)
        /\ call.ret.best_accuracy = MaxLoggedAccuracy(call.ret.all_tests)

(***************************************************************************)
(* Backtester.run_backtest: the replay of the completed games of the store  *)
(* and the aggregation of the outcomes.                                     *)
(***************************************************************************)
BucketNames == {"50-60%", "60-70%", "70-80%", "80%+"}

BUCKET_80 == 80
BUCKET_70 == 70
BUCKET_60 == 60

\* A bucketing without the top band, which _get_confidence_bucket has.
GetConfidenceBucketNoTopBand(confidence) ==
    IF RLe(RInt(BUCKET_70), confidence) THEN "70-80%"
    ELSE IF RLe(RInt(BUCKET_60), confidence) THEN "60-70%"
    ELSE "50-60%"

GetConfidenceBucket(confidence) ==
    IF RLe(RInt(BUCKET_80), confidence) THEN "80%+"
    ELSE IF RLe(RInt(BUCKET_70), confidence) THEN "70-80%"
    ELSE IF RLe(RInt(BUCKET_60), confidence) THEN "60-70%"
    ELSE "50-60%"

NoGamesResult ==
    [error |-> "No historical games found for backtesting", games_analyzed |-> 0]

IsError(x) == "error" \in DOMAIN x

\* A backtest whose total counts the rows of the predictions table, which
\* run_backtest never reads.
BacktestStartCountsSaved(historical_games) ==
    [results |-> [total_games |-> Len(historical_games) + Len(db_predictions),
                  completed_games |-> 0,
                  correct_predictions |-> 0,
                  accuracy |-> Zero,
                  avg_confidence |-> Zero,
                  predictions |-> <<>>,
                  performance_by_confidence |-> EmptyDict,
                  factor_analysis |-> EmptyDict],
     total_confidence |-> Zero,
     confidence_buckets |-> [b \in BucketNames |-> [correct |-> 0, total |-> 0]]]

\* The locals of run_backtest before the loop.
BacktestStart(historical_games) ==
    [results |-> [total_games |-> Len(historical_games),
                  completed_games |-> 0,
                  correct_predictions |-> 0,
                  accuracy |-> Zero,
                  avg_confidence |-> Zero,
                  predictions |-> <<>>,
                  performance_by_confidence |-> EmptyDict,
                  factor_analysis |-> EmptyDict],
     total_confidence |-> Zero,
     confidence_buckets |-> [b \in BucketNames |-> [correct |-> 0, total |-> 0]]]

FactorSummary(factors) ==
    [i \in 1..Len(factors) |->
        [name |-> factors[i].name, value |-> factors[i].value, weight |-> factors[i].weight]]

\* The entry appended to results['predictions'].
PredictionRecord(game, prediction, actual_winner) ==
    [game_id          |-> game.espn_id,
     matchup          |-> <<game.away_team_name, "@", game.home_team_name>>,
     predicted_winner |-> prediction.predicted_winner,
     actual_winner    |-> actual_winner,
     confidence       |-> prediction.confidence,
     correct          |-> actual_winner = prediction.predicted_winner,
     factors          |-> FactorSummary(prediction.factors)]

\* A counting that takes a game as completed only when its prediction was
\* right, which run_backtest does not do.
ScorePredictionCountsHitsOnly(run, entry, bucket) ==
    [results |->
        [run.results EXCEPT
            !.completed_games = @ + (IF entry.correct THEN 1 ELSE 0),
            !.correct_predictions = @ + (IF entry.correct THEN 1 ELSE 0),
            !.predictions = Append(@, entry)],
     total_confidence |-> RAdd(run.total_confidence, entry.confidence),
     confidence_buckets |->
        [run.confidence_buckets EXCEPT
            ![bucket] = [total |-> @.total + 1,
                         correct |-> @.correct + (IF entry.correct THEN 1 ELSE 0)]]]

\* The counting of one scored prediction.
ScorePrediction(run, entry, bucket) ==
    [results |->
        [run.results EXCEPT
            !.completed_games = @ + 1,
            !.correct_predictions = @ + (IF entry.correct THEN 1 ELSE 0),
            !.predictions = Append(@, entry)],
     total_confidence |-> RAdd(run.total_confidence, entry.confidence),
     confidence_buckets |->
        [run.confidence_buckets EXCEPT
            ![bucket] = [total |-> @.total + 1,
                         correct |-> @.correct + (IF entry.correct THEN 1 ELSE 0)]]]

\* One pass of the loop of run_backtest.
BacktestStep(run, game, prediction) ==
    IF ~IsGameCompleted(game) \/ ~IsPrediction(prediction) THEN run
    ELSE ScorePrediction(run,
                         PredictionRecord(game, prediction, GetActualWinner(game)),
                         GetConfidenceBucket(prediction.confidence))

\* _analyze_factors: per factor name, the counts over the detail records and
\* then the averages.
NoFactorStats ==
    [total_predictions |-> 0, correct_predictions |-> 0, avg_impact |-> Zero,
     accuracy |-> Zero]

\* A tally that counts a factor only in the predictions where it had a
\* nonzero value, which _analyze_factors does not do.
AddFactorWhenNonzero(stats, factor, is_correct) ==
    IF factor.value = Zero THEN stats
    ELSE [stats EXCEPT !.total_predictions = @ + 1,
                       !.avg_impact = RAdd(@, RAbs(factor.value)),
                       !.correct_predictions = @ + (IF is_correct THEN 1 ELSE 0)]

AddFactor(stats, factor, is_correct) ==
    [stats EXCEPT !.total_predictions = @ + 1,
                  !.avg_impact = RAdd(@, RAbs(factor.value)),
                  !.correct_predictions = @ + (IF is_correct THEN 1 ELSE 0)]

RECURSIVE FactorCountsIn(_, _, _, _, _)
FactorCountsIn(factors, name, j, stats, is_correct) ==
    IF j > Len(factors) THEN stats
    ELSE FactorCountsIn(factors, name, j + 1,
             IF factors[j].name = name THEN AddFactor(stats, factors[j], is_correct)
             ELSE stats,
             is_correct)

RECURSIVE FactorCounts(_, _, _, _)
FactorCounts(predictions, name, i, stats) ==
    IF i > Len(predictions) THEN stats
    ELSE FactorCounts(predictions, name, i + 1,
             FactorCountsIn(predictions[i].factors, name, 1, stats, predictions[i].correct))

FactorAverages(stats) ==
    IF stats.total_predictions > 0
    THEN [stats EXCEPT !.accuracy = Rat(stats.correct_predictions, stats.total_predictions),
                       !.avg_impact = RDiv(@, RInt(stats.total_predictions))]
    ELSE stats

FactorNames(predictions) ==
    UNION { { predictions[i].factors[j].name : j \in 1..Len(predictions[i].factors) } :
            i \in 1..Len(predictions) }

AnalyzeFactors(predictions) ==
    [name \in FactorNames(predictions) |->
        FactorAverages(FactorCounts(predictions, name, 1, NoFactorStats))]

\* The final metrics of run_backtest.
BacktestFinish(run) ==
    [run.results EXCEPT
        !.accuracy = IF run.results.completed_games > 0
                     THEN Rat(run.results.correct_predictions, run.results.completed_games)
                     ELSE @,
        !.avg_confidence = IF run.results.completed_games > 0
                           THEN RDiv(run.total_confidence, RInt(run.results.completed_games))
                           ELSE @,
        !.performance_by_confidence = run.confidence_buckets,
        !.factor_analysis = AnalyzeFactors(run.results.predictions)]

RECURSIVE BacktestLoop(_, _, _, _)
BacktestLoop(historical_games, i, run, rows) ==
    IF i > Len(historical_games) THEN run
    ELSE BacktestLoop(historical_games, i + 1,
             BacktestStep(run, historical_games[i],
                 PredictHistoricalGame(historical_games[i], DefaultWeights, rows)),
             rows)

BacktestOf(historical_games, rows) ==
    IF historical_games = <<>> THEN NoGamesResult
    ELSE BacktestFinish(BacktestLoop(historical_games, 1, BacktestStart(historical_games), rows))

RunBacktest(rows) == BacktestOf(GetHistoricalGames(rows), rows)

(***************************************************************************)
(* AlgorithmOptimizer.analyze_factor_importance and recommend_improvements. *)
(* base_weights is the factor_weights of the optimizer's base_engine.       *)
(***************************************************************************)
NoDataResult == [error |-> "No historical data available for analysis"]

IMPORTANCE_SCALE == 100

ImportanceEntry(baseline_accuracy, without_factor_accuracy) ==
    [baseline_accuracy       |-> baseline_accuracy,
     without_factor_accuracy |-> without_factor_accuracy,
     accuracy_drop           |-> RSub(baseline_accuracy, without_factor_accuracy),
     importance_score        |-> RMul(RSub(baseline_accuracy, without_factor_accuracy),
                                      RInt(IMPORTANCE_SCALE))]

\* The loop over the factor names, given the baseline backtest.
FactorImportance(baseline_results, base_weights, rows) ==
    IF Get(baseline_results, "completed_games", 0) = 0 THEN NoDataResult
    ELSE [baseline_accuracy |-> baseline_results.accuracy,
          factor_importance |->
              [factor_name \in DOMAIN base_weights |->
                  ImportanceEntry(baseline_results.accuracy,
                      RunTestBacktest(
                          CreateTestEngine(AblatedWeights(base_weights, factor_name)),
                          rows).accuracy)]]

\* The baseline backtest is run once, before the loop.
AnalyzeFactorImportance(base_weights, rows) ==
    CHOOSE analysis \in { FactorImportance(baseline_results, base_weights, rows) :
                              baseline_results \in {RunBacktest(rows)} } : TRUE

LOW_IMPACT_SCORE == 1

\* get_model_performance()['accuracy_percentage'] of the base engine.
MODEL_ACCURACY_PERCENTAGE == 0

LowImpactFactors(factor_importance) ==
    SelectSeq(FactorKeys,
              LAMBDA name : /\ name \in DOMAIN factor_importance
                            /\ RLt(factor_importance[name].importance_score,
                                   RInt(LOW_IMPACT_SCORE)))

WeightRecommendation(optimization_results) ==
    IF RLt(RInt(MODEL_ACCURACY_PERCENTAGE), optimization_results.best_accuracy)
    THEN << [type |-> "weight_optimization", priority |-> "high",
             suggested_weights |-> optimization_results.best_weights] >>
    ELSE <<>>

FactorRecommendation(importance_analysis) ==
    IF /\ Has(importance_analysis, "factor_importance")
       /\ DOMAIN importance_analysis.factor_importance # {}
       /\ LowImpactFactors(importance_analysis.factor_importance) # <<>>
    THEN << [type |-> "factor_removal", priority |-> "medium",
             factors |-> LowImpactFactors(importance_analysis.factor_importance)] >>
    ELSE <<>>

DataRecommendations ==
    << [type |-> "data_enhancement", priority |-> "medium", action |-> "weather_integration"],
       [type |-> "data_enhancement", priority |-> "low", action |-> "injury_integration"] >>

\* The report; best_results is None when no candidate was selected, and
\* None.get raises AttributeError.
Recommendations(optimization_results, importance_analysis) ==
    IF IsNone(optimization_results.best_results) THEN Raise("AttributeError")
    ELSE [recommendations |-> WeightRecommendation(optimization_results)
                              \o FactorRecommendation(importance_analysis)
                              \o DataRecommendations,
          current_performance |->
              [accuracy |-> optimization_results.best_accuracy,
               total_games_analyzed |->
                   Get(optimization_results.best_results, "completed_games", 0)]]

RecommendImprovements(base_weights, rows) ==
    CHOOSE report \in { Recommendations(optimization_results, importance_analysis) :
                            optimization_results \in {OptimizeFactorWeights(rows)},
                            importance_analysis \in {AnalyzeFactorImportance(base_weights, rows)} }
        : TRUE

(***************************************************************************)
(* The operations of the Backtester and the AlgorithmOptimizer as actions.  *)
(* run_backtest is followed through its loop: while it runs, call.ret holds *)
(* its position (the games to replay, the index of the next one, the        *)
(* locals).                                                                 *)
(***************************************************************************)
BacktestDone == call.op = "run_backtest" /\ ~IsPending(call.ret)
BacktestRunning == call.op = "run_backtest" /\ IsPending(call.ret)

\* The aggregate numbers of a backtest result.
Aggregates(results) ==
    IF IsError(results) THEN results
    ELSE [total_games |-> results.total_games,
          completed_games |-> results.completed_games,
          correct_predictions |-> results.correct_predictions,
          accuracy |-> results.accuracy,
          avg_confidence |-> results.avg_confidence,
          performance_by_confidence |-> results.performance_by_confidence,
          factor_analysis |-> results.factor_analysis]

\* What the caller of a finished backtest keeps of it, to compare the next
\* run with: how it read the store, the games and the number of saved
\* predictions the store held, and the aggregates.
HeldResult ==
    [readable |-> call.args.readable,
     games |-> call.args.games,
     saved |-> Len(db_predictions),
     aggregates |-> Aggregates(call.ret)]

\* The caller keeps the result and is free to call again.
Hold ==
    /\ BacktestDone
    /\ call' = [op |-> "none", args |-> [held |-> HeldResult], ret |-> <<>>]
    /\ UNCHANGED <<db_games, db_predictions, collector_vars>>

\* run_backtest is entered, by a caller with nothing in hand or by one that
\* holds the result of a run before (previous).
StartBacktest ==
    /\ Idle
    /\ \E readable \in BOOLEAN :
          LET historical_games == GetHistoricalGames(Visible(db_games, readable))
          IN  call' = [op   |-> "run_backtest",
                       args |-> [readable |-> readable,
                                 games |-> db_games,
                                 previous |-> IF DOMAIN call.args = {} THEN NoneRet
                                              ELSE call.args.held],
                       ret  |-> IF historical_games = <<>> THEN NoGamesResult
                                ELSE [pending |-> TRUE,
                                      historical_games |-> historical_games,
                                      i |-> 1,
                                      run |-> BacktestStart(historical_games)]]
    /\ UNCHANGED <<db_games, db_predictions, collector_vars>>

StepBacktest ==
    /\ BacktestRunning
    /\ call.ret.i <= Len(call.ret.historical_games)
    /\ call' = [call EXCEPT
                   !.ret.run = BacktestStep(@, call.ret.historical_games[call.ret.i],
                                   PredictHistoricalGame(
                                       call.ret.historical_games[call.ret.i], DefaultWeights,
                                       Visible(db_games, call.args.readable))),
                   !.ret.i = @ + 1]
    /\ UNCHANGED <<db_games, db_predictions, collector_vars>>

FinishBacktest ==
    /\ BacktestRunning
    /\ call.ret.i > Len(call.ret.historical_games)
    /\ call' = [call EXCEPT !.ret = BacktestFinish(call.ret.run)]
    /\ UNCHANGED <<db_games, db_predictions, collector_vars>>

\* The factor_weights the base engine may hold when the analysis is asked for.
BaseInputs == { DefaultWeights, Weights(40, 20, 15, 10, 10, 5, 0) }

AnalyzeImportance ==
    /\ Idle
    /\ \E readable \in BOOLEAN, base_weights \in BaseInputs :
          call' = [op   |-> "analyze_factor_importance",
                   args |-> [readable |-> readable, base_weights |-> base_weights],
                   ret  |-> AnalyzeFactorImportance(base_weights,
                                                    Visible(db_games, readable))]
    /\ UNCHANGED <<db_games, db_predictions, collector_vars>>

Recommend ==
    /\ Idle
    /\ \E readable \in BOOLEAN :
          call' = [op   |-> "recommend_improvements",
                   args |-> [readable |-> readable],
                   ret  |-> RecommendImprovements(DefaultWeights,
                                                  Visible(db_games, readable))]
    /\ UNCHANGED <<db_games, db_predictions, collector_vars>>

EvalNext ==
    \/ SaveGame
    \/ PredictHistorical
    \/ SearchWeights
    \/ StartBacktest
    \/ StepBacktest
    \/ FinishBacktest
    \/ AnalyzeImportance
    \/ Recommend
    \/ Return

EvalSpec == Init /\ [][EvalNext]_vars

(***************************************************************************)
(* AblateSpec: analyze_factor_importance over stores that hold a season of  *)
(* meetings of the two teams, up to one game more than the sample of        *)
(* _run_test_backtest.                                                      *)
(***************************************************************************)
\* n meetings with the same hosts; the oldest one (day 1) ended first_scores,
\* the later ones scores.
Season(n, teams, first_scores, scores) ==
    { GameRow(k, teams, "STATUS_FINAL", IF k = 1 THEN first_scores ELSE scores,
              JsonDumps(EmptyDict)) : k \in 1..n }

SeasonInputs ==
    { Season(n, teams, first_scores, scores) :
          n \in 0..MaxGames, teams \in TeamPairs,
          first_scores \in ScorePairs, scores \in ScorePairs }
    \cup { Season(SAMPLE_SIZE + 1, <<Bills, Falcons>>, first_scores, <<MaxScore, 0>>) :
               first_scores \in {<<0, 0>>, <<MaxScore, 0>>} }

AblateInit ==
    /\ db_games \in SeasonInputs
    /\ db_predictions = <<>>
    /\ CollectorIdle
    /\ call = NoCall

AblateNext ==
    \/ AnalyzeImportance
    \/ Return

AblateSpec == AblateInit /\ [][AblateNext]_vars

Analyzed == call.op = "analyze_factor_importance"

\* C11 as claimed: for every corpus, of any size, a factor whose weight in the
\* baseline configuration is 0 is reported with an importance score of 0.
C11_ZeroWeightFactorScoresZero ==
    Analyzed /\ ~IsError(call.ret) =>
        \A factor_name \in DOMAIN call.args.base_weights :
            call.args.base_weights[factor_name] = Zero
                => call.ret.factor_importance[factor_name].importance_score = Zero

(***************************************************************************)
(* WeightsSpec: the redistribution of analyze_factor_importance as a pure   *)
(* function of the baseline configuration and of the factor removed.        *)
(***************************************************************************)
\* Weights in hundredths: nothing, a small share, a large share.
WeightValues == {0, 5, MaxWeight}

BaseWeightInputs ==
    { Weights(ts, h2h, ha, rest, wx, mot, inj) :
          ts \in WeightValues, h2h \in WeightValues, ha \in WeightValues,
          rest \in WeightValues, wx \in WeightValues, mot \in WeightValues,
          inj \in WeightValues }

WeightsInit ==
    /\ db_games = {}
    /\ db_predictions = <<>>
    /\ CollectorIdle
    /\ \E base \in BaseWeightInputs, factor_name \in DOMAIN DefaultWeights :
          call = [op   |-> "ablate",
                  args |-> [base |-> base, factor_name |-> factor_name],
                  ret  |-> Pending]

Ablate ==
    /\ call.op = "ablate"
    /\ IsPending(call.ret)
    /\ call' = [call EXCEPT !.ret = AblatedWeights(call.args.base, call.args.factor_name)]
    /\ UNCHANGED <<db_games, db_predictions, collector_vars>>

WeightsNext == Ablate

WeightsSpec == WeightsInit /\ [][WeightsNext]_vars

Ablated == call.op = "ablate" /\ ~IsPending(call.ret)

\* C12: removing a factor gives a configuration without its key in which
\* every remaining weight w has become w + removed * w / (sum of the remaining
\* weights before the update); when that sum is positive the new weights add
\* up to the total of the baseline and keep their pairwise ratios, and when
\* it is zero the remaining weights are left as they are.
C12_AblationRedistributesProportionally ==
    Ablated =>
        LET base == call.args.base
            removed_weight == base[call.args.factor_name]
            remaining == WithoutKey(base, call.args.factor_name)
            total_remaining == SumWeights(remaining, Len(FactorKeys))
        IN  /\ DOMAIN call.ret = DOMAIN base \ {call.args.factor_name}
            /\ RPos(total_remaining) =>
                  /\ \A k \in DOMAIN remaining :
                        call.ret[k] = RAdd(remaining[k],
                                           RDiv(RMul(removed_weight, remaining[k]),
                                                total_remaining))
                  /\ SumWeights(call.ret, Len(FactorKeys)) = SumWeights(base, Len(FactorKeys))
                  /\ \A j, k \in DOMAIN remaining :
                        RMul(call.ret[j], remaining[k]) = RMul(call.ret[k], remaining[j])
            /\ ~RPos(total_remaining) => call.ret = remaining

\* A factor with a positive weight is removed from a configuration whose
\* remaining weights are unequal and positive in sum.
C12_Witness ==
    /\ Ablated
    /\ RPos(call.args.base[call.args.factor_name])
    /\ \E j, k \in DOMAIN call.ret :
          /\ RLt(call.args.base[j], call.args.base[k])
          /\ RPos(call.args.base[j])
          /\ RLt(call.args.base[k], call.ret[k])

Recommended == call.op = "recommend_improvements"

\* C13 as claimed: for every corpus, the empty one and one on which no
\* candidate scores above 0 included, recommend_improvements returns without
\* raising, and the last two entries of its list are the weather and the
\* injury data_enhancement records, in that order.
C13_RecommendAlwaysReturnsStaticSuggestions ==
    Recommended =>
        /\ ~Raised(call.ret)
        /\ Len(call.ret.recommendations) >= 2
        /\ SubSeq(call.ret.recommendations,
                  Len(call.ret.recommendations) - 1,
                  Len(call.ret.recommendations)) = DataRecommendations

\* The read of the store gives no completed game: it fails, or no row of the
\* table is final or has a score.
NoUsableGames(readable) ==
    \A game \in Visible(db_games, readable) : ~IsGameCompleted(game)

\* C14: when the store supplies no completed game, or reading it fails,
\* run_backtest returns an error-flagged result with games_analyzed 0,
\* optimize_factor_weights returns no best configuration and logs accuracy 0
\* for every candidate, and analyze_factor_importance returns an
\* error-flagged result; none of them raises.
C14_NoUsableHistoryGivesFlaggedResults ==
    /\ call.op = "run_backtest" /\ NoUsableGames(call.args.readable) =>
          /\ ~IsPending(call.ret)
          /\ ~Raised(call.ret)
          /\ IsError(call.ret)
          /\ call.ret.games_analyzed = 0
    /\ Searched /\ NoUsableGames(call.args.readable) =>
          /\ ~Raised(call.ret)
          /\ IsNone(call.ret.best_weights)
          /\ IsNone(call.ret.best_results)
          /\ \A i \in 1..Len(call.ret.all_tests) :
                /\ call.ret.all_tests[i].accuracy = Zero
                /\ call.ret.all_tests[i].total_games = 0
    /\ Analyzed /\ NoUsableGames(call.args.readable) =>
          /\ ~Raised(call.ret)
          /\ IsError(call.ret)

\* The three operations have been called on a store that holds rows, none of
\* them completed, and on one that holds completed games and cannot be read.
C14_Witness ==
    /\ call.op \in {"run_backtest", "optimize_factor_weights", "analyze_factor_importance"}
    /\ NoUsableGames(call.args.readable)
    /\ db_games # {}
    /\ call.args.readable \/ \E game \in db_games : IsGameCompleted(game)

(***************************************************************************)
(* BacktestSpec: run_backtest, followed through its loop, over the games    *)
(* table as save_games and scripts/add_sample_historical_data.py fill it.   *)
(***************************************************************************)
Dolphins == [id |-> "15", name |-> "Miami Dolphins"]
Chiefs == [id |-> "12", name |-> "Kansas City Chiefs"]
Broncos == [id |-> "7", name |-> "Denver Broncos"]
Niners == [id |-> "25", name |-> "San Francisco 49ers"]
Seahawks == [id |-> "26", name |-> "Seattle Seahawks"]

\* A row of sample_games; the three are dated 7, 6 and 5 days before the
\* script runs, here the days after the last day of a saved game.
SampleRow(n, espn_id, teams, scores, conditions) ==
    [GameRow(MaxGames + n, teams, "STATUS_FINAL", scores,
             JsonDumps([conditions |-> conditions]))
        EXCEPT !.espn_id = espn_id]

SampleGames ==
    << SampleRow(1, "hist_001", <<Bills, Dolphins>>, <<24, 17>>, "clear"),
       SampleRow(2, "hist_002", <<Chiefs, Broncos>>, <<31, 14>>, "clear"),
       SampleRow(3, "hist_003", <<Niners, Seahawks>>, <<21, 28>>, "rain") >>

RECURSIVE InsertAll(_, _, _)
InsertAll(rows, games, i) ==
    IF i > Len(games) THEN rows
    ELSE InsertAll(InsertOrReplace(rows, games[i]), games, i + 1)

AddSampleHistoricalGames ==
    /\ Idle
    /\ db_games' = InsertAll(db_games, SampleGames, 1)
    /\ UNCHANGED <<db_predictions, call, collector_vars>>

BacktestNext ==
    \/ SaveGame
    \/ AddSampleHistoricalGames
    \/ StartBacktest
    \/ StepBacktest
    \/ FinishBacktest
    \/ Return

BacktestSpec == Init /\ [][BacktestNext]_vars

\* The locals of the run in progress, or those of the finished run as its
\* result shows them.
HasRun == call.op = "run_backtest" /\ ~IsError(call.ret)

CurrentResults == IF IsPending(call.ret) THEN call.ret.run.results ELSE call.ret

CurrentBuckets ==
    IF IsPending(call.ret) THEN call.ret.run.confidence_buckets
    ELSE call.ret.performance_by_confidence

StoredGame(espn_id) == CHOOSE game \in db_games : game.espn_id = espn_id

CountCorrect(predictions) ==
    Cardinality({ i \in 1..Len(predictions) : predictions[i].correct })

\* C15: the actual_winner of every detail record is the home team's name
\* when the stored home_score is the greater, the away team's name when the
\* away_score is, and 'TIE' otherwise; the record of a game with equal
\* scores has correct = false and is not counted in correct_predictions.
C15_ActualWinnerFromScoresAndTiesIncorrect ==
    HasRun =>
        /\ \A i \in 1..Len(CurrentResults.predictions) :
              LET entry == CurrentResults.predictions[i]
                  game == StoredGame(entry.game_id)
              IN  /\ game.home_score > game.away_score
                        => entry.actual_winner = game.home_team_name
                  /\ game.away_score > game.home_score
                        => entry.actual_winner = game.away_team_name
                  /\ game.home_score = game.away_score
                        => entry.actual_winner = "TIE" /\ ~entry.correct
                  /\ entry.correct <=> entry.predicted_winner = entry.actual_winner
        /\ CurrentResults.correct_predictions = CountCorrect(CurrentResults.predictions)

\* A finished run has scored a drawn game, a home win and an away win.
C15_Witness ==
    /\ BacktestDone
    /\ HasRun
    /\ \E i, j, k \in 1..Len(call.ret.predictions) :
          /\ call.ret.predictions[i].actual_winner = "TIE"
          /\ call.ret.predictions[j].actual_winner = StoredGame(call.ret.predictions[j].game_id).home_team_name
          /\ call.ret.predictions[k].actual_winner = StoredGame(call.ret.predictions[k].game_id).away_team_name

\* The band of a bucket, by its bounds.
InBand(bucket, c) ==
    CASE bucket = "50-60%" -> RLe(RInt(50), c) /\ RLt(c, RInt(60))
      [] bucket = "60-70%" -> RLe(RInt(60), c) /\ RLt(c, RInt(70))
      [] bucket = "70-80%" -> RLe(RInt(70), c) /\ RLt(c, RInt(80))
      [] bucket = "80%+"   -> RLe(RInt(80), c)

Scored(predictions, bucket) ==
    { i \in 1..Len(predictions) : InBand(bucket, predictions[i].confidence) }

RECURSIVE SumOver(_, _, _)
SumOver(buckets, names, field) ==
    IF names = {} THEN 0
    ELSE LET b == CHOOSE x \in names : TRUE
         IN  buckets[b][field] + SumOver(buckets, names \ {b}, field)

\* C16: every scored prediction is counted in exactly one of the four
\* buckets, the one whose band 50 <= c < 60, 60 <= c < 70, 70 <= c < 80 or
\* c >= 80 holds its confidence c; the bucket totals add up to
\* completed_games, the bucket correct counts to correct_predictions, and in
\* each bucket correct <= total.
C16_EachPredictionInItsBucket ==
    HasRun =>
        /\ DOMAIN CurrentBuckets = BucketNames
        /\ \A i \in 1..Len(CurrentResults.predictions) :
              Cardinality({ b \in BucketNames :
                              InBand(b, CurrentResults.predictions[i].confidence) }) = 1
        /\ \A b \in BucketNames :
              /\ CurrentBuckets[b].total = Cardinality(Scored(CurrentResults.predictions, b))
              /\ CurrentBuckets[b].correct =
                    Cardinality({ i \in Scored(CurrentResults.predictions, b) :
                                    CurrentResults.predictions[i].correct })
              /\ CurrentBuckets[b].correct <= CurrentBuckets[b].total
        /\ SumOver(CurrentBuckets, BucketNames, "total") = CurrentResults.completed_games
        /\ SumOver(CurrentBuckets, BucketNames, "correct") = CurrentResults.correct_predictions

\* A finished run has counted predictions in the highest bucket and in
\* another one, and a miss as well as a hit.
C16_Witness ==
    /\ BacktestDone
    /\ HasRun
    /\ call.ret.performance_by_confidence["80%+"].total > 0
    /\ Cardinality({ b \in BucketNames : call.ret.performance_by_confidence[b].total > 0 }) >= 2
    /\ 0 < call.ret.correct_predictions
    /\ call.ret.correct_predictions < call.ret.completed_games

RECURSIVE SumConfidence(_, _)
SumConfidence(predictions, n) ==
    IF n = 0 THEN Zero
    ELSE RAdd(SumConfidence(predictions, n - 1), predictions[n].confidence)

MeanConfidence(predictions) ==
    IF predictions = <<>> THEN Zero
    ELSE RDiv(SumConfidence(predictions, Len(predictions)), RInt(Len(predictions)))

CountersInOrder(results) ==
    /\ 0 <= results.correct_predictions
    /\ results.correct_predictions <= results.completed_games
    /\ results.completed_games <= results.total_games
    /\ results.completed_games = Len(results.predictions)

MetricsOfCounters(results) ==
    /\ results.accuracy = IF results.completed_games = 0 THEN Zero
                          ELSE Rat(results.correct_predictions, results.completed_games)
    /\ RLe(Zero, results.accuracy)
    /\ RLe(results.accuracy, RInt(1))
    /\ results.avg_confidence = MeanConfidence(results.predictions)

RecordsOf(predictions, espn_id) ==
    { i \in 1..Len(predictions) : predictions[i].game_id = espn_id }

\* C19: over a store that holds exactly the three sample games, 24-17, 31-14
\* and 21-28, each final, run_backtest reports completed_games = 3 and one
\* detail record per game, whose actual_winner is the home team for hist_001
\* and hist_002 and the away team for hist_003.
C19_SampleGamesAreScored ==
    /\ BacktestDone
    /\ call.args.readable
    /\ call.args.games = { SampleGames[n] : n \in 1..Len(SampleGames) }
    =>  /\ ~IsError(call.ret)
        /\ call.ret.total_games = 3
        /\ call.ret.completed_games = 3
        /\ Len(call.ret.predictions) = 3
        /\ \A n \in 1..Len(SampleGames) :
              Cardinality(RecordsOf(call.ret.predictions, SampleGames[n].espn_id)) = 1
        /\ \A i \in 1..Len(call.ret.predictions) :
              call.ret.predictions[i].actual_winner =
                  CASE call.ret.predictions[i].game_id = "hist_001" -> "Buffalo Bills"
                    [] call.ret.predictions[i].game_id = "hist_002" -> "Kansas City Chiefs"
                    [] call.ret.predictions[i].game_id = "hist_003" -> "Seattle Seahawks"

\* The backtest has finished over the store of the three sample games.
C19_Witness ==
    /\ BacktestDone
    /\ call.args.readable
    /\ call.args.games = { SampleGames[n] : n \in 1..Len(SampleGames) }
    /\ ~IsError(call.ret)
    /\ Len(call.ret.predictions) = Len(SampleGames)

(***************************************************************************)
(* RerunSpec: run_backtest called again by a caller that kept the result of *)
(* the run before, over stores of meetings of the two teams; between the    *)
(* runs the sample games may be added and predictions saved.                *)
(***************************************************************************)
\* The row of the predictions table for one prediction (the explanation
\* text of a factor is left out, as it is in the factors of the model).
PredictionData(prediction) ==
    [game_id          |-> prediction.game_id,
     predicted_winner |-> prediction.predicted_winner,
     confidence       |-> prediction.confidence,
     prediction_type  |-> "spread",
     factors          |-> JsonDumps(prediction.factors)]

\* A pass that inserts the row and leaves saved_count as it was, which
\* save_predictions does not do.
SaveStepUncounted(st, prediction, written) ==
    IF written
    THEN [st EXCEPT !.rows = Append(@, PredictionData(prediction))]
    ELSE st

\* One pass of the loop of save_predictions.  written tells whether
\* database.save_prediction inserts and commits the row; when it raises, the
\* except clause logs the error and the loop goes on.
SaveStep(st, prediction, written) ==
    IF written
    THEN [rows |-> Append(st.rows, PredictionData(prediction)),
          saved_count |-> st.saved_count + 1]
    ELSE st

RECURSIVE SaveLoop(_, _, _, _)
SaveLoop(predictions, writes, i, st) ==
    IF i > Len(predictions) THEN st
    ELSE SaveLoop(predictions, writes, i + 1, SaveStep(st, predictions[i], writes[i]))

\* save_predictions over the predictions table rows: the table afterwards and
\* the count returned.
SavePredictionsOf(predictions, writes, rows) ==
    SaveLoop(predictions, writes, 1, [rows |-> rows, saved_count |-> 0])

\* save_predictions for the prediction of one scheduled matchup, by a caller
\* that drops the count.
SavePredictions ==
    /\ Idle
    /\ Len(db_predictions) < MaxSaved
    /\ \E game \in ScheduledInputs, written \in BOOLEAN :
          LET prediction == PredictSingleGame(game, DefaultWeights, db_games)
          IN  /\ IsPrediction(prediction)
              /\ db_predictions' =
                     SavePredictionsOf(<<prediction>>, <<written>>, db_predictions).rows
    /\ UNCHANGED <<db_games, call, collector_vars>>

RerunInit ==
    /\ db_games \in MeetingInputs
    /\ db_predictions = <<>>
    /\ CollectorIdle
    /\ call = NoCall

RerunNext ==
    \/ AddSampleHistoricalGames
    \/ SavePredictions
    \/ StartBacktest
    \/ StepBacktest
    \/ FinishBacktest
    \/ Hold
    \/ Return

RerunSpec == RerunInit /\ [][RerunNext]_vars

Rerun == BacktestDone /\ ~IsNone(call.args.previous)

MANTISSA_BITS == 53
GUARD_BITS == 70
LIMB_BITS == 13
LIMB == 2 ^ LIMB_BITS

FZero == [neg |-> FALSE, bits |-> <<>>, exp |-> 0]

Ones(bits) == { i \in 1..Len(bits) : bits[i] = 1 }
FirstOne(bits) == CHOOSE i \in Ones(bits) : \A j \in Ones(bits) : i <= j
LastOne(bits) == CHOOSE i \in Ones(bits) : \A j \in Ones(bits) : j <= i

StripLeading(bits) ==
    IF Ones(bits) = {} THEN <<>> ELSE SubSeq(bits, FirstOne(bits), Len(bits))

\* The float of sign, significand and exponent, in its one representation.
Canonical(neg, bits, exp) ==
    IF Ones(bits) = {} THEN FZero
    ELSE [neg |-> neg,
          bits |-> SubSeq(bits, FirstOne(bits), LastOne(bits)),
          exp |-> exp + (Len(bits) - LastOne(bits))]

Zeros(n) == [i \in 1..n |-> 0]
PadLeft(bits, n) == Zeros(n - Len(bits)) \o bits

RECURSIVE NatOfBits(_, _, _)
NatOfBits(bits, i, n) ==
    IF i > Len(bits) THEN n ELSE NatOfBits(bits, i + 1, 2 * n + bits[i])

LimbCount(bits) == (Len(bits) + LIMB_BITS - 1) \div LIMB_BITS

\* The limbs of a bit string of a whole number of limbs.
LimbsOfPadded(bits) ==
    [l \in 1..(Len(bits) \div LIMB_BITS) |->
        NatOfBits(SubSeq(bits, (l - 1) * LIMB_BITS + 1, l * LIMB_BITS), 1, 0)]

\* The limbs of bits, n of them.
LimbsOf(bits, n) == LimbsOfPadded(PadLeft(bits, n * LIMB_BITS))

BitsOfLimbs(limbs) ==
    [p \in 1..(LIMB_BITS * Len(limbs)) |->
        (limbs[(p - 1) \div LIMB_BITS + 1]
            \div (2 ^ (LIMB_BITS - 1 - ((p - 1) % LIMB_BITS)))) % 2]

BitsOfNat(n) == StripLeading(BitsOfLimbs(<<n \div (LIMB * LIMB), (n \div LIMB) % LIMB, n % LIMB>>))

\* a + b for a and b of one length, from the last limb (i) up.
RECURSIVE AddLimbs(_, _, _, _, _)
AddLimbs(a, b, i, carry, sum) ==
    IF i = 0 THEN <<carry>> \o sum
    ELSE AddLimbs(a, b, i - 1, (a[i] + b[i] + carry) \div LIMB,
                  <<(a[i] + b[i] + carry) % LIMB>> \o sum)

\* a - b for a >= b of one length.
RECURSIVE SubLimbs(_, _, _, _, _)
SubLimbs(a, b, i, borrow, difference) ==
    IF i = 0 THEN difference
    ELSE SubLimbs(a, b, i - 1, IF a[i] - b[i] - borrow < 0 THEN 1 ELSE 0,
                  <<(a[i] - b[i] - borrow) % LIMB>> \o difference)

RECURSIVE MulLimbs(_, _, _, _, _)
MulLimbs(a, k, i, carry, product) ==
    IF i = 0 THEN <<carry \div LIMB, carry % LIMB>> \o product
    ELSE MulLimbs(a, k, i - 1, (a[i] * k + carry) \div LIMB,
                  <<(a[i] * k + carry) % LIMB>> \o product)

\* Long division by k: the quotient limbs and the remainder.
RECURSIVE DivLimbs(_, _, _, _, _)
DivLimbs(a, k, i, rem, quotient) ==
    IF i > Len(a) THEN [quotient |-> quotient, rem |-> rem]
    ELSE DivLimbs(a, k, i + 1, (rem * LIMB + a[i]) % k,
                  Append(quotient, (rem * LIMB + a[i]) \div k))

Longer(a, b) == IF LimbCount(a) > LimbCount(b) THEN LimbCount(a) ELSE LimbCount(b)

AddBits(a, b) ==
    BitsOfLimbs(AddLimbs(LimbsOf(a, Longer(a, b)), LimbsOf(b, Longer(a, b)),
                         Longer(a, b), 0, <<>>))

SubBits(a, b) ==
    BitsOfLimbs(SubLimbs(LimbsOf(a, Longer(a, b)), LimbsOf(b, Longer(a, b)),
                         Longer(a, b), 0, <<>>))

MulBits(a, k) == BitsOfLimbs(MulLimbs(LimbsOf(a, LimbCount(a)), k, LimbCount(a), 0, <<>>))

DivBits(a, k) ==
    LET division == DivLimbs(LimbsOf(a, LimbCount(a)), k, 1, 0, <<>>)
    IN  [quotient |-> BitsOfLimbs(division.quotient), rem |-> division.rem]

\* a < b for bit strings without leading zeros.
LessBits(a, b) ==
    \/ Len(a) < Len(b)
    \/ /\ Len(a) = Len(b)
       /\ \E i \in 1..Len(a) : a[i] < b[i] /\ \A j \in 1..(i - 1) : a[j] = b[j]

\* The rounding of a significand without leading zeros.
RoundStripped(neg, b, exp, sticky) ==
    IF Len(b) <= MANTISSA_BITS THEN Canonical(neg, b, exp)
    ELSE LET keep == SubSeq(b, 1, MANTISSA_BITS)
             up == /\ b[MANTISSA_BITS + 1] = 1
                   /\ \/ sticky
                      \/ \E i \in (MANTISSA_BITS + 2)..Len(b) : b[i] = 1
                      \/ keep[MANTISSA_BITS] = 1
         IN  Canonical(neg, IF up THEN AddBits(keep, <<1>>) ELSE keep,
                       exp + Len(b) - MANTISSA_BITS)

\* Round to nearest, ties to even; sticky: the exact value lies above bits.
RoundBits(neg, bits, exp, sticky) == RoundStripped(neg, StripLeading(bits), exp, sticky)

FOfInt(n) == Canonical(n < 0, BitsOfNat(IF n < 0 THEN 0 - n ELSE n), 0)

\* The float nearest to n / k (k > 0): what a decimal literal denotes.
FNearest(n, k) ==
    LET division == DivBits(BitsOfNat(IF n < 0 THEN 0 - n ELSE n) \o Zeros(GUARD_BITS), k)
    IN  RoundBits(n < 0, division.quotient, 0 - GUARD_BITS, division.rem # 0)

FNeg(x) == IF x = FZero THEN x ELSE [x EXCEPT !.neg = ~@]

\* Sum of magnitudes or difference of magnitudes, on a common exponent.
FAddBits(x_neg, a, y_neg, b, exp) ==
    IF x_neg = y_neg THEN RoundBits(x_neg, AddBits(a, b), exp, FALSE)
    ELSE IF LessBits(a, b) THEN RoundBits(y_neg, SubBits(b, a), exp, FALSE)
    ELSE RoundBits(x_neg, SubBits(a, b), exp, FALSE)

FAddAligned(x, y, exp) ==
    FAddBits(x.neg, x.bits \o Zeros(x.exp - exp), y.neg, y.bits \o Zeros(y.exp - exp), exp)

FAdd(x, y) ==
    IF x = FZero THEN y
    ELSE IF y = FZero THEN x
    ELSE FAddAligned(x, y, IF x.exp < y.exp THEN x.exp ELSE y.exp)

FSub(x, y) == FAdd(x, FNeg(y))

\* x * k for an int k.
FMulInt(x, k) ==
    IF x = FZero \/ k = 0 THEN FZero
    ELSE RoundBits(x.neg # (k < 0), MulBits(x.bits, IF k < 0 THEN 0 - k ELSE k), x.exp, FALSE)

\* x / k for an int k > 0.
FDivInt(x, k) ==
    IF x = FZero THEN FZero
    ELSE LET division == DivBits(x.bits \o Zeros(GUARD_BITS), k)
         IN  RoundBits(x.neg, division.quotient, x.exp - GUARD_BITS, division.rem # 0)

(***************************************************************************)
(* Backtester.simulate_betting_performance and BetSpec, which takes it as a *)
(* pure function of the backtest result and the stake.                      *)
(***************************************************************************)
BET_CONFIDENCE == 60
ROI_SCALE == 100

\* The literals 0.9091 and 52.38.
PAYOUT == FNearest(9091, 10000)
BREAK_EVEN_ACCURACY == FNearest(5238, 100)

BetStart == [total_bets |-> 0, total_winnings |-> FZero, total_wagered |-> 0]

\* A pass that pays a winning bet its stake back with the profit, which
\* simulate_betting_performance does not do.
BetStepReturnsStake(totals, prediction, bet_amount) ==
    IF RLt(prediction.confidence, RInt(60)) THEN totals
    ELSE [total_bets |-> totals.total_bets + 1,
          total_wagered |-> totals.total_wagered + bet_amount,
          total_winnings |-> IF prediction.correct
                             THEN FAdd(totals.total_winnings,
                                       FAdd(FOfInt(bet_amount),
                                            FMulInt(FNearest(9091, 10000), bet_amount)))
                             ELSE totals.total_winnings]

\* One pass of the loop: a prediction below the confidence is skipped.
BetStep(totals, prediction, bet_amount) ==
    IF RLt(prediction.confidence, RInt(BET_CONFIDENCE)) THEN totals
    ELSE [total_bets |-> totals.total_bets + 1,
          total_wagered |-> totals.total_wagered + bet_amount,
          total_winnings |-> IF prediction.correct
                             THEN FAdd(totals.total_winnings, FMulInt(PAYOUT, bet_amount))
                             ELSE totals.total_winnings]

RECURSIVE BetLoop(_, _, _, _)
BetLoop(predictions, i, totals, bet_amount) ==
    IF i > Len(predictions) THEN totals
    ELSE BetLoop(predictions, i + 1, BetStep(totals, predictions[i], bet_amount), bet_amount)

BetProfit(totals) == FSub(totals.total_winnings, FOfInt(totals.total_wagered))

BetReport(totals, profit_loss) ==
    [total_bets |-> totals.total_bets,
     total_wagered |-> totals.total_wagered,
     total_winnings |-> totals.total_winnings,
     profit_loss |-> profit_loss,
     roi_percentage |-> IF totals.total_wagered > 0
                        THEN FMulInt(FDivInt(profit_loss, totals.total_wagered), ROI_SCALE)
                        ELSE FZero,
     break_even_accuracy |-> BREAK_EVEN_ACCURACY]

SimulateBettingPerformance(backtest_results, bet_amount) ==
    CHOOSE report \in
        { BetReport(totals, BetProfit(totals)) :
              totals \in { BetLoop(Get(backtest_results, "predictions", <<>>), 1,
                                   BetStart, bet_amount) } } : TRUE

\* Backtest results with hits right predictions at confidence 60 or more,
\* misses wrong ones at the highest confidence and low right ones below 60.
BetPredictions(hits, misses, low) ==
    [i \in 1..hits |-> [confidence |-> IF i % 2 = 1 THEN RInt(BET_CONFIDENCE)
                                        ELSE Rat(701, 10),
                        correct |-> TRUE]]
    \o [i \in 1..misses |-> [confidence |-> RInt(MAX_CONFIDENCE), correct |-> FALSE]]
    \o [i \in 1..low |-> [confidence |-> Rat(599, 10), correct |-> TRUE]]

BetInputs ==
    { [predictions |-> BetPredictions(hits, misses, low)] :
          hits \in 0..MaxBets, misses \in 0..2, low \in 0..1 }
    \cup { EmptyDict }

StakeInputs == {100, 50, 5, 0}

BetInit ==
    /\ db_games = {}
    /\ db_predictions = <<>>
    /\ CollectorIdle
    /\ \E backtest_results \in BetInputs, bet_amount \in StakeInputs :
          call = [op   |-> "simulate_betting_performance",
                  args |-> [backtest_results |-> backtest_results,
                            bet_amount |-> bet_amount],
                  ret  |-> Pending]

Simulate ==
    /\ call.op = "simulate_betting_performance"
    /\ IsPending(call.ret)
    /\ call' = [call EXCEPT !.ret = SimulateBettingPerformance(call.args.backtest_results,
                                                               call.args.bet_amount)]
    /\ UNCHANGED <<db_games, db_predictions, collector_vars>>

BetNext == Simulate

BetSpec == BetInit /\ [][BetNext]_vars

Simulated == call.op = "simulate_betting_performance" /\ ~IsPending(call.ret)

BetsOf(backtest_results) ==
    LET predictions == Get(backtest_results, "predictions", <<>>)
    IN  { i \in 1..Len(predictions) : RLe(RInt(60), predictions[i].confidence) }

WinsOf(backtest_results) ==
    { i \in BetsOf(backtest_results) : backtest_results.predictions[i].correct }

\* C20 as claimed: the simulation bets on exactly the predictions with
\* confidence >= 60; total_wagered is stake * bets, total_winnings is
\* stake * 0.9091 * correct bets, profit_loss is total_winnings -
\* total_wagered, and ROI is 0 when nothing was wagered; ten correct
\* predictions at confidence >= 60 with stake 100 give 1000, 909.1 and -90.9.
C20_BettingTotals ==
    Simulated =>
        LET bets == Cardinality(BetsOf(call.args.backtest_results))
            wins == Cardinality(WinsOf(call.args.backtest_results))
            stake == call.args.bet_amount
        IN  /\ call.ret.total_bets = bets
            /\ call.ret.total_wagered = stake * bets
            /\ call.ret.total_winnings = FNearest(stake * 9091 * wins, 10000)
            /\ call.ret.profit_loss =
                  FSub(call.ret.total_winnings, FOfInt(call.ret.total_wagered))
            /\ call.ret.total_wagered = 0 => call.ret.roi_percentage = FZero
            /\ bets = 10 /\ wins = 10 /\ stake = 100 =>
                  /\ call.ret.total_wagered = 1000
                  /\ call.ret.total_winnings = FNearest(9091, 10)
                  /\ call.ret.profit_loss = FNearest(0 - 909, 10)

(***************************************************************************)
(* C21: the profit and loss of the betting simulation.                      *)
(***************************************************************************)
LossesOf(backtest_results) ==
    BetsOf(backtest_results) \ WinsOf(backtest_results)

\* C21 as claimed: every winning bet adds stake * 0.9091 to the reported
\* profit_loss and every losing bet takes the stake from it, so profit_loss
\* is the accumulated winnings of the correct bets minus stake * (number of
\* incorrect bets).
C21_ProfitIsWinningsMinusLostStakes ==
    Simulated =>
        LET losses == Cardinality(LossesOf(call.args.backtest_results))
        IN  call.ret.profit_loss =
                FSub(call.ret.total_winnings, FOfInt(call.args.bet_amount * losses))

(***************************************************************************)
(* C22: the Team Strength factor on well-formed records.                    *)
(***************************************************************************)
StrengthCalculated ==
    /\ Calculated
    /\ call.op = "_calculate_team_strength_factor"

\* The records the calculator reads, each with its wins, losses and ties,
\* under an engine whose weights carry the factor's key.
HomeRecord == Get(call.args.home_team, "record", ZeroRecord)
AwayRecord == Get(call.args.away_team, "record", ZeroRecord)
RecordsWellFormed ==
    /\ RecordComplete(HomeRecord)
    /\ RecordComplete(AwayRecord)
    /\ Has(call.args.weights, "team_strength")

Played(r) == r.wins + r.losses + r.ties

\* (home_win_pct - away_win_pct) * 14 from the counts of the two records,
\* a tie counting as half a win.
ExpectedStrength(home, away) ==
    Rat(14 * ((2 * home.wins + home.ties) * Played(away)
              - (2 * away.wins + away.ties) * Played(home)),
        2 * Played(home) * Played(away))

ExpectedStrengthConfidence(home, away) ==
    IF 10 * (Played(home) + Played(away)) >= 9 * 20
    THEN Rat(9, 10)
    ELSE Rat(Played(home) + Played(away), 20)

\* C22: when both sides have played at least one game the Team Strength
\* factor has value (home_win_pct - away_win_pct) * 14 and confidence
\* min(0.9, games played by both / 20), so 10-0-0 against 0-10-0 gives 14.0
\* and 0.9; when either side has played no game it has value 0 and
\* confidence 0.1.
C22_TeamStrengthValueAndConfidence ==
    StrengthCalculated /\ RecordsWellFormed =>
        /\ Played(HomeRecord) > 0 /\ Played(AwayRecord) > 0 =>
              /\ call.ret.value = ExpectedStrength(HomeRecord, AwayRecord)
              /\ call.ret.confidence = ExpectedStrengthConfidence(HomeRecord, AwayRecord)
        /\ Played(HomeRecord) = 0 \/ Played(AwayRecord) = 0 =>
              /\ call.ret.value = Zero
              /\ call.ret.confidence = Rat(1, 10)
        /\ /\ HomeRecord = [wins |-> 10, losses |-> 0, ties |-> 0]
           /\ AwayRecord = [wins |-> 0, losses |-> 10, ties |-> 0]
           => call.ret.value = RInt(14) /\ call.ret.confidence = Rat(9, 10)

\* An unbeaten home side with a tie against a side that lost its ten games
\* and tied one: 22 games, value (21/22 - 1/22) * 14 with confidence 0.9.
C22_Witness ==
    /\ StrengthCalculated
    /\ RecordsWellFormed
    /\ HomeRecord = [wins |-> MaxRecord, losses |-> 0, ties |-> 1]
    /\ AwayRecord = [wins |-> 0, losses |-> MaxRecord, ties |-> 1]
    /\ call.ret.value = Rat(14 * 20, 22)
    /\ call.ret.confidence = Rat(9, 10)

(***************************************************************************)
(* HeadToHeadSpec: _calculate_head_to_head_factor over a games table, read  *)
(* through _get_historical_matchups and SportsDatabase.get_games.           *)
(***************************************************************************)
\* Games of one of the two teams against a third side, dated after the
\* meetings of a series of n games.
OtherGames(n, scores) ==
    { GameRow(n + 1, <<Falcons, Dolphins>>, "STATUS_FINAL", scores, JsonDumps(EmptyDict)),
      GameRow(n + 2, <<Dolphins, Bills>>, "STATUS_FINAL", scores, JsonDumps(EmptyDict)) }

\* Tables of up to MaxMeetings meetings whose oldest game may have ended
\* differently from the later ones, the same with games against a third
\* side, and series whose latest meeting had the hosts exchanged.
SeriesInputs ==
    { Season(n, teams, first_scores, scores) :
          n \in 0..MaxMeetings, teams \in TeamPairs,
          first_scores \in ScorePairs, scores \in ScorePairs }
    \cup { Season(n, teams, scores, scores) \cup OtherGames(n, scores) :
               n \in 0..MIN_MEETINGS, teams \in TeamPairs, scores \in ScorePairs }
    \cup { Season(n, teams, <<0, 0>>, scores)
           \cup { GameRow(n + 1, <<teams[2], teams[1]>>, "STATUS_FINAL", scores,
                          JsonDumps(EmptyDict)) } :
               n \in 1..(MaxMeetings - 1), teams \in TeamPairs, scores \in ScorePairs }

HeadToHeadInit ==
    /\ db_games \in SeriesInputs
    /\ db_predictions = <<>>
    /\ CollectorIdle
    /\ \E weights \in WeightConfigs, teams \in TeamPairs, readable \in BOOLEAN :
          call = CalcCall("_calculate_head_to_head_factor",
                          [weights |-> weights, home_team_id |-> teams[1].id,
                           away_team_id |-> teams[2].id, readable |-> readable])

HeadToHeadOfStore ==
    /\ call.op = "_calculate_head_to_head_factor"
    /\ IsPending(call.ret)
    /\ call' = [call EXCEPT !.ret =
                   CalculateHeadToHeadFactor(call.args.home_team_id, call.args.away_team_id,
                                             call.args.weights,
                                             Visible(db_games, call.args.readable))]
    /\ UNCHANGED <<db_games, db_predictions, collector_vars>>

HeadToHeadNext == HeadToHeadOfStore

HeadToHeadSpec == HeadToHeadInit /\ [][HeadToHeadNext]_vars

HeadToHeadCalculated ==
    /\ call.op = "_calculate_head_to_head_factor"
    /\ ~IsPending(call.ret)
    /\ Has(call.args.weights, "head_to_head")

\* The stored games between the two teams of the call.
StoredMeetings ==
    { game \in db_games :
          {game.home_team_id, game.away_team_id}
              = {call.args.home_team_id, call.args.away_team_id} }

\* C23: with fewer than 3 stored games between the two teams, or a store
\* that cannot be read, the Head-to-Head factor has value 0 and confidence
\* 0.2 whatever the scores of those games.
C23_FewMeetingsGiveNoSignal ==
    HeadToHeadCalculated
    /\ (Cardinality(StoredMeetings) < 3 \/ ~call.args.readable)
    => call.ret.value = Zero /\ call.ret.confidence = Rat(2, 10)

\* Two one-sided meetings and games against a third side in a readable store.
C23_Witness ==
    /\ HeadToHeadCalculated
    /\ call.args.readable
    /\ Cardinality(StoredMeetings) = 2
    /\ Cardinality(db_games) = 4
    /\ \A game \in StoredMeetings : game.home_score = BlowoutScore
    /\ call.ret.value = Zero
    /\ call.ret.confidence = Rat(2, 10)

\* The latest-dated up-to-5 of the stored meetings.
MostRecentMeetings ==
    { game \in StoredMeetings :
          Cardinality({ later \in StoredMeetings : later.game_date > game.game_date }) < 5 }

RECURSIVE MarginOver(_, _)
MarginOver(games, home_team_id) ==
    IF games = {} THEN 0
    ELSE LET game == CHOOSE g \in games : TRUE
         IN  (IF game.home_team_id = home_team_id
              THEN game.home_score - game.away_score
              ELSE game.away_score - game.home_score)
             + MarginOver(games \ {game}, home_team_id)

\* C24 as claimed: with 3 or more stored games between the two teams the
\* Head-to-Head value is the average margin, from the current home team's
\* side, over the latest-dated up-to-5 of them, and the confidence is
\* min(0.8, games considered / 5).
C24_AverageOverMostRecentMeetings ==
    HeadToHeadCalculated /\ call.args.readable /\ Cardinality(StoredMeetings) >= 3 =>
        LET considered == Cardinality(MostRecentMeetings)
        IN  /\ call.ret.value =
                  Rat(MarginOver(MostRecentMeetings, call.args.home_team_id), considered)
            /\ call.ret.confidence =
                  IF considered >= 4 THEN Rat(8, 10) ELSE Rat(considered, 5)

(***************************************************************************)
(* C25: the Weather factor by the status of the matchup's snapshot.         *)
(***************************************************************************)
\* The weather calculator has returned for a matchup whose snapshot, when it
\* has one, is a dict, under an engine whose weights carry the factor's key.
WeatherCalculated ==
    /\ Calculated
    /\ call.op = "_calculate_weather_factor"
    /\ Has(call.args.weights, "weather_impact")
    /\ Has(call.args.game, "weather") => call.args.game.weather # NotADict

SnapshotStatus ==
    IF Has(call.args.game, "weather") /\ Has(call.args.game.weather, "status")
    THEN call.args.game.weather.status
    ELSE "none"

NoSnapshot ==
    ~Has(call.args.game, "weather") \/ call.args.game.weather = EmptyDict

SnapshotImpact ==
    IF /\ Has(call.args.game.weather, "game_impact")
       /\ Has(call.args.game.weather.game_impact, "total_score_impact")
    THEN call.args.game.weather.game_impact.total_score_impact
    ELSE 0

\* C25: the Weather factor is 0 with confidence 0.9 without a snapshot or
\* with status 'not_needed', 0 with confidence 0.1 with status
\* 'unavailable', and otherwise the snapshot's total-score impact (0 when it
\* carries none) with confidence 0.7.
C25_WeatherByStatus ==
    WeatherCalculated =>
        IF NoSnapshot \/ SnapshotStatus = "not_needed"
        THEN call.ret.value = Zero /\ call.ret.confidence = Rat(9, 10)
        ELSE IF SnapshotStatus = "unavailable"
        THEN call.ret.value = Zero /\ call.ret.confidence = Rat(1, 10)
        ELSE /\ call.ret.value = RInt(SnapshotImpact)
             /\ call.ret.confidence = Rat(7, 10)

\* A snowy reading with impact -3.
C25_Witness ==
    /\ WeatherCalculated
    /\ ~NoSnapshot
    /\ SnapshotStatus = "none"
    /\ SnapshotImpact = 0 - 3
    /\ call.ret.value = RInt(0 - 3)
    /\ call.ret.confidence = Rat(7, 10)

(***************************************************************************)
(* StoreSpec: the engine and the backtester over one store.  Games enter    *)
(* the store through the sample-data script, predictions through            *)
(* save_predictions only.                                                   *)
(***************************************************************************)
\* The lists a caller may hand to save_predictions: predictions the engine
\* gave for scheduled matchups.
SaveInputs ==
    LET made == { PredictSingleGame(game, DefaultWeights, db_games) :
                      game \in ScheduledInputs }
    IN  UNION { [1..n -> made] : n \in 0..MaxBatch }

SaveAndReturn ==
    /\ Idle
    /\ \E predictions \in SaveInputs :
       \E writes \in [1..Len(predictions) -> BOOLEAN] :
          /\ Len(db_predictions) + Len(predictions) <= MaxStored
          /\ \E saved \in { SavePredictionsOf(predictions, writes, db_predictions) } :
                /\ db_predictions' = saved.rows
                /\ call' = [op   |-> "save_predictions",
                            args |-> [predictions |-> predictions, writes |-> writes],
                            ret  |-> saved.saved_count]
    /\ UNCHANGED <<db_games, collector_vars>>

StoreInit ==
    /\ db_games \in MeetingInputs
    /\ db_predictions = <<>>
    /\ CollectorIdle
    /\ call = NoCall

StoreNext ==
    \/ AddSampleHistoricalGames
    \/ Predict
    \/ PredictMany
    \/ StartBacktest
    \/ StepBacktest
    \/ FinishBacktest
    \/ SaveAndReturn
    \/ Return

StoreSpec == StoreInit /\ [][StoreNext]_vars

\* The writes of a save call that went through.
Written(writes) == { i \in DOMAIN writes : writes[i] }

\* A step of predict, predict_many or the backtester's run.
ReadOnlyStep == call'.op \in {"_predict_single_game", "predict_games", "run_backtest"}

SaveStepTaken == call.op = "none" /\ call'.op = "save_predictions"

\* C26: predict, predict_many and the backtester's run leave the stored
\* predictions and the stored games as they are; the stored predictions
\* change only in a save call, which keeps the rows it found, adds exactly
\* one row per prediction it reports as saved, and saves every prediction
\* whose write goes through, also after one whose write failed.
C26_PredictionsChangeOnlyThroughSave ==
    [][ /\ ReadOnlyStep => UNCHANGED <<db_games, db_predictions>>
        /\ db_predictions' # db_predictions => SaveStepTaken
        /\ SaveStepTaken =>
              /\ db_games' = db_games
              /\ Len(db_predictions') = Len(db_predictions) + call'.ret
              /\ SubSeq(db_predictions', 1, Len(db_predictions)) = db_predictions
              /\ call'.ret = Cardinality(Written(call'.args.writes))
              /\ \A i \in Written(call'.args.writes) :
                    \E k \in (Len(db_predictions) + 1)..Len(db_predictions') :
                        db_predictions'[k] = PredictionData(call'.args.predictions[i])
      ]_vars

\* A save of two predictions of which the first write failed: one row is
\* reported and stored, next to completed games in the store.
C26_Witness ==
    /\ call.op = "save_predictions"
    /\ call.args.writes = <<FALSE, TRUE>>
    /\ call.ret = 1
    /\ Len(db_predictions) = 1
    /\ db_predictions[1].game_id = call.args.predictions[2].game_id
    /\ \E game \in db_games : IsGameCompleted(game)

(***************************************************************************)
(* C27: what the backtest predicts when Home Advantage is the only signal.  *)
(***************************************************************************)
\* The stored games between the two teams of a stored game.
MeetingsOf(game) ==
    { other \in db_games :
          {other.home_team_id, other.away_team_id}
              = {game.home_team_id, game.away_team_id} }

\* The snapshot stored with a game is absent, 'not_needed', 'unavailable' or
\* carries a total-score impact of 0.
CalmSnapshot(game) ==
    \/ IsNull(game.weather_data)
    \/ LET weather == JsonLoads(game.weather_data)
       IN  \/ weather = EmptyDict
           \/ Get(weather, "status", "None") \in {"not_needed", "unavailable"}
           \/ Get(Get(weather, "game_impact", EmptyDict), "total_score_impact", 0) = 0

HomeOnlySignal(game) ==
    /\ Cardinality(MeetingsOf(game)) < 3
    /\ CalmSnapshot(game)

NonzeroFactors(record) ==
    { record.factors[j].name : j \in { k \in 1..Len(record.factors) :
                                          record.factors[k].value # Zero } }

CompletedGames == { game \in db_games : IsGameCompleted(game) }

HomeWins == { game \in CompletedGames : game.home_score > game.away_score }

\* C27: under the default weights every backtest prediction for a game whose
\* teams have fewer than 3 stored meetings and whose snapshot is absent,
\* 'not_needed', 'unavailable' or without impact has Home Advantage as its
\* only nonzero factor, a spread above 0 and the home team as winner; on a
\* corpus of such games the accuracy is the share of games the hosts won.
C27_HomeAdvantageDecidesBacktest ==
    HasRun =>
        /\ \A i \in 1..Len(CurrentResults.predictions) :
              LET record == CurrentResults.predictions[i]
                  game == StoredGame(record.game_id)
                  prediction == PredictHistoricalGame(game, DefaultWeights,
                                    Visible(db_games, call.args.readable))
              IN  HomeOnlySignal(game) =>
                      /\ NonzeroFactors(record) = {"Home Advantage"}
                      /\ RPos(prediction.spread_prediction)
                      /\ record.predicted_winner = game.home_team_name
        /\ /\ BacktestDone
           /\ \A game \in CompletedGames : HomeOnlySignal(game)
           => call.ret.accuracy = Rat(Cardinality(HomeWins), Cardinality(CompletedGames))

\* A finished run over the sample games and two meetings of the Falcons and
\* the Bills, one won by the hosts and one by the visitors: four of the five
\* games were won at home.
C27_Witness ==
    /\ BacktestDone
    /\ ~IsError(call.ret)
    /\ \A game \in CompletedGames : HomeOnlySignal(game)
    /\ Cardinality(CompletedGames) = 5
    /\ \E game \in CompletedGames : game.away_score > game.home_score
    /\ \E game \in CompletedGames : game.away_score = game.home_score
    /\ call.ret.completed_games = 5
    /\ call.ret.accuracy = Rat(Cardinality(HomeWins), 5)
    /\ RLt(call.ret.accuracy, RInt(1))

(***************************************************************************)
(* C28: the factor-attribution table of a backtest result.                  *)
(***************************************************************************)
\* The names of the seven factors of a prediction.
SevenFactors ==
    {"Team Strength", "Head-to-Head", "Home Advantage", "Rest Advantage", "Weather",
     "Motivation", "Injuries"}

RECURSIVE SumImpact(_, _, _)
SumImpact(predictions, name, n) ==
    IF n = 0 THEN Zero
    ELSE LET factors == predictions[n].factors
             j == CHOOSE k \in 1..Len(factors) : factors[k].name = name
         IN  RAdd(SumImpact(predictions, name, n - 1), RAbs(factors[j].value))

Attributed == BacktestDone /\ ~IsError(call.ret) /\ call.ret.completed_games > 0

\* C28: in a backtest result with completed_games > 0 the factor table has
\* one entry per factor name, and every entry has total_predictions =
\* completed_games, correct_predictions = the overall correct_predictions and
\* accuracy = the overall accuracy; avg_impact is the factor's mean absolute
\* value over the detail records.
C28_FactorTableRepeatsOverallMetrics ==
    Attributed =>
        /\ DOMAIN call.ret.factor_analysis = SevenFactors
        /\ \A name \in DOMAIN call.ret.factor_analysis :
              LET entry == call.ret.factor_analysis[name]
              IN  /\ entry.total_predictions = call.ret.completed_games
                  /\ entry.correct_predictions = call.ret.correct_predictions
                  /\ entry.accuracy = call.ret.accuracy
                  /\ entry.avg_impact =
                        RDiv(SumImpact(call.ret.predictions, name, Len(call.ret.predictions)),
                             RInt(call.ret.completed_games))

\* A result with hits and misses in which Head-to-Head and Home Advantage
\* have different, nonzero mean impacts.
C28_Witness ==
    /\ Attributed
    /\ 0 < call.ret.correct_predictions
    /\ call.ret.correct_predictions < call.ret.completed_games
    /\ RPos(call.ret.factor_analysis["Head-to-Head"].avg_impact)
    /\ call.ret.factor_analysis["Head-to-Head"].avg_impact
          # call.ret.factor_analysis["Home Advantage"].avg_impact
    /\ call.ret.factor_analysis["Team Strength"].avg_impact = Zero

(***************************************************************************)
(* C29: the betting simulation never reports a profit.                      *)
(***************************************************************************)
\* x <= y on floats: the sign of the rounded difference is that of the exact one.
FLe(x, y) == LET difference == FSub(x, y) IN difference.neg \/ difference = FZero

NeverProfitable ==
    /\ FLe(call.ret.profit_loss, FZero)
    /\ FLe(call.ret.roi_percentage, FZero)

WINDOW_SECONDS == 60

Tick == 20          \* seconds that pass in one step of the clock
MaxClock == 140     \* the last second of the day that is modelled
MaxRequests == 4    \* requests a collector sends

\* wait_if_needed: the calls younger than a minute are kept; at the limit
\* the call sleeps until the oldest of them is a minute old; the time
\* recorded is the one read on entry.
KeptCalls(calls, now) ==
    SelectSeq(calls, LAMBDA call_time : now - call_time < WINDOW_SECONDS)

SleepTime(limiter, now) ==
    LET calls == KeptCalls(limiter.calls, now)
    IN  IF Len(calls) >= limiter.max_calls
        THEN LET sleep_time == WINDOW_SECONDS - (now - calls[1])
             IN  IF sleep_time > 0 THEN sleep_time ELSE 0
        ELSE 0

WaitIfNeeded(limiter, now) ==
    [limiter EXCEPT !.calls = Append(KeptCalls(limiter.calls, now), now)]

\* The limits the collectors of the repository may be constructed with here.
RateLimits == {1, 2}

RateInit ==
    /\ db_games = {}
    /\ db_predictions = <<>>
    /\ call = NoCall
    /\ \E max_calls \in RateLimits :
          rate_limiter = [max_calls |-> max_calls, calls |-> <<>>]
    /\ clock = 0
    /\ sent = <<>>

\* Time passes while the collector is not asked for anything.
Pass ==
    /\ Idle
    /\ clock + Tick <= MaxClock
    /\ clock' = clock + Tick
    /\ UNCHANGED <<db_games, db_predictions, call, rate_limiter, sent>>

\* make_request: the limiter is asked first, the request goes out when
\* wait_if_needed returns, and the response or None is handed back.
MakeRequest ==
    /\ Idle
    /\ Len(sent) < MaxRequests
    /\ clock + SleepTime(rate_limiter, clock) <= MaxClock
    /\ rate_limiter' = WaitIfNeeded(rate_limiter, clock)
    /\ clock' = clock + SleepTime(rate_limiter, clock)
    /\ sent' = Append(sent, clock')
    /\ \E response \in { [status |-> "ok"], NoneRet } :
          call' = [op   |-> "make_request",
                   args |-> [now |-> clock, slept |-> SleepTime(rate_limiter, clock)],
                   ret  |-> response]
    /\ UNCHANGED <<db_games, db_predictions>>

RateNext ==
    \/ Pass
    \/ MakeRequest
    \/ Return

RateSpec == RateInit /\ [][RateNext]_vars

\* The requests sent in the 60 seconds that begin with request i.
SentInWindowFrom(i) ==
    { j \in 1..Len(sent) : sent[i] <= sent[j] /\ sent[j] < sent[i] + 60 }

\* C30 as claimed: whatever the times of the make_request calls, no rolling
\* 60-second window holds more than max_calls requests actually sent, a
\* request that had to wait being counted when it goes out.
C30_NoWindowExceedsMaxCalls ==
    \A i \in 1..Len(sent) : Cardinality(SentInWindowFrom(i)) <= rate_limiter.max_calls

====
